---- MODULE Spec2Model ----
(***************************************************************************)
(* EXOline TCP client (exoline-rs): the request multiplexer of            *)
(* EXOlineTCPClient (send_request / receive_response), the byte codec of  *)
(* client/internal/encoding.rs, the typed read/write facade and the DPac  *)
(* page reassembly of read_dpac_internal; the controller model: the VPac  *)
(* layout of add_vpac_variable, load_selective and lookup_variable.       *)
(***************************************************************************)
EXTENDS Integers, Sequences, FiniteSets, TLC

VARIABLES
    \* ---- multiplexer (Spec) ----
    pc,             \* per caller: position inside send_request
    response_queue, \* EXOlineTCPClient.response_queue: FIFO of oneshot senders
    writer,         \* holder of Connection.writer (tokio Mutex)
    writerShut,     \* the writer half has been shut down
    wire,           \* request frames put on the socket, in order
    answered,       \* number of wire entries the device has looked at
    inbound,        \* response frames in flight towards the client
    peerClosed,     \* the device has closed its sending side
    unsolicited,    \* frames the device sent without a request
    readerPc,       \* position of the receive_response task
    readerMsg,      \* frame returned by read_response, not yet delivered
    readerErr,      \* error returned by read_response, not yet fanned out
    loopResult,     \* value the receive_response task terminated with
    slot,           \* per caller: value sent into its oneshot channel
    completions,    \* log of every sender.send call, in order
    enqOrder,       \* callers in the order their slots were pushed
    result,         \* per caller: value send_request returned
    \* ---- one caller driving the typed operations (SpecClient) ----
    call,           \* the public operation in progress and its arguments
    cpc,            \* position of the caller inside the operation
    cqueue,         \* response_queue: commands whose slot is queued
    cwire,          \* request payloads written to the socket, in order
    cstream,        \* bytes sent by the device, not yet read
    cslot,          \* value sent into the oneshot of the pending request
    cresult,        \* value the public operation returned
    dpac,           \* locals of read_dpac_internal: data, page, position, result
    canswered,      \* number of requests the device has answered
    device,         \* the device's pages and its latest answer
    pla,            \* read_exoline_address: the outcome of its first read
    \* ---- the byte codec applied to one input (SpecCodec) ----
    codec,          \* the input, the bytes computed from it, and how far
    \* ---- the variables section of one VPac being parsed (SpecVPac) ----
    vpac,           \* pages, align_with_segments, the VariableMap, the offset
    \* ---- a controller being loaded and looked up (SpecController) ----
    ctl,            \* Load.Mdl items left, dpacs/tasks/texts/globals, lookups
    \* ---- load_file calls sharing the loader's cache (SpecLoader) ----
    loader,         \* the cache entry of one path, its OnceCell, the calls
    \* ---- read_response over the bytes of one stream (SpecReader) ----
    rd,             \* the loop's buffer, how it returned, the queued slots
    \* ---- an Encoder buffer written and decoded again (SpecU24) ----
    buf,            \* the values written, the buffer, the values read back
    \* ---- a file tokenised into sections and items (SpecTokens) ----
    tok,            \* the lines of the file and what the iterators yielded
    \* ---- read_response applied to one byte stream (SpecFraming) ----
    fr,             \* the stream and what read_response returned for it
    \* ---- the values section of one BPac being parsed (SpecBPac) ----
    bp              \* the columns, the data lines left, the VariableMap

muxVars == <<pc, response_queue, writer, writerShut, wire, answered, inbound,
             peerClosed, unsolicited, readerPc, readerMsg, readerErr, loopResult,
             slot, completions, enqOrder, result>>

cliVars == <<call, cpc, cqueue, cwire, cstream, cslot, cresult, dpac,
             canswered, device, pla>>

pureVars == <<codec, vpac, ctl, loader, rd, buf, tok, fr, bp>>

layoutVars == <<vpac, ctl, loader, rd, buf, tok, fr, bp>>

exceptVPac == <<codec, ctl, loader, rd, buf, tok, fr, bp>>

exceptCtl == <<codec, vpac, loader, rd, buf, tok, fr, bp>>

exceptLoader == <<codec, vpac, ctl, rd, buf, tok, fr, bp>>

exceptRd == <<codec, vpac, ctl, loader, buf, tok, fr, bp>>

exceptEnc == <<codec, vpac, ctl, loader, rd, tok, fr, bp>>

exceptTok == <<codec, vpac, ctl, loader, rd, buf, fr, bp>>

exceptFr == <<codec, vpac, ctl, loader, rd, buf, tok, bp>>

exceptBp == <<codec, vpac, ctl, loader, rd, buf, tok, fr>>

vars == <<pc, response_queue, writer, writerShut, wire, answered, inbound,
          peerClosed, unsolicited, readerPc, readerMsg, readerErr, loopResult,
          slot, completions, enqOrder, result,
          call, cpc, cqueue, cwire, cstream, cslot, cresult, dpac,
          canswered, device, pla, codec, vpac, ctl, loader, rd, buf, tok, fr, bp>>

----------------------------------------------------------------------------
\* Bounds of the model.

\* number of tasks that call send_request on the one client
NumCallers == 2
\* number of frames the device may send without having been asked
MaxUnsolicited == 1

Callers == 1..NumCallers

----------------------------------------------------------------------------
\* Framing bytes (client/internal/consts.rs; values from the wire frame table).

BEGIN_RESPONSE == 1
BEGIN_REQUEST == 2
END_MESSAGE == 3
ESCAPE_VALUE == 27

Byte == 0..255

----------------------------------------------------------------------------
\* Byte codec: client/internal/encoding.rs

\* bit i of a ^ b, in place
XorBit(a, b, i) == ((((a \div (2 ^ i)) + (b \div (2 ^ i))) % 2) * (2 ^ i))

\* u8 ^ u8
Xor8(a, b) ==
    XorBit(a, b, 0) + XorBit(a, b, 1) + XorBit(a, b, 2) + XorBit(a, b, 3)
        + XorBit(a, b, 4) + XorBit(a, b, 5) + XorBit(a, b, 6) + XorBit(a, b, 7)

\* !byte on a u8
Not8(b) == 255 - b

\* the fold `crc ^= byte` over data[lo..hi]; XOR is associative, so the
\* range is folded by halves to keep the evaluation shallow
RECURSIVE CrcFrom(_, _, _)
CrcFrom(data, lo, hi) ==
    IF lo > hi THEN 0
    ELSE IF lo = hi THEN Xor8(0, data[lo])
    ELSE LET mid == (lo + hi) \div 2 IN
         Xor8(CrcFrom(data, lo, mid), CrcFrom(data, mid + 1, hi))

calc_crc(data) == CrcFrom(data, 1, Len(data))

NeedsEscape(b) == b \in {ESCAPE_VALUE, BEGIN_REQUEST, BEGIN_RESPONSE, END_MESSAGE}

\* escape, first loop: index of the first byte that needs escaping
\* (Len + 1 if none does)
EscapeScan(data) ==
    LET hits == {i \in 1..Len(data) : NeedsEscape(data[i])} IN
    IF hits = {} THEN Len(data) + 1
    ELSE CHOOSE i \in hits : \A j \in hits : i <= j

\* the second loop escaping the frame markers but not ESCAPE_VALUE itself
EscapeByteMarkersOnly(byte) ==
    IF byte \in {BEGIN_REQUEST, BEGIN_RESPONSE, END_MESSAGE}
    THEN <<27, Not8(byte)>> ELSE <<byte>>

\* escape, body of the second loop: what one byte adds to new_data
EscapeByte(byte) ==
    IF NeedsEscape(byte) THEN <<27, Not8(byte)>> ELSE <<byte>>

\* escape, second loop over data[lo..hi] (by halves)
RECURSIVE EscapeRest(_, _, _)
EscapeRest(data, lo, hi) ==
    IF lo > hi THEN <<>>
    ELSE IF lo = hi THEN EscapeByte(data[lo])
    ELSE LET mid == (lo + hi) \div 2 IN
         EscapeRest(data, lo, mid) \o EscapeRest(data, mid + 1, hi)

escape(data) ==
    LET i == EscapeScan(data) IN
    IF i > Len(data) THEN data
    ELSE SubSeq(data, 1, i - 1) \o EscapeRest(data, i, Len(data))

\* unescape, first loop: index of the first ESCAPE_VALUE (Len + 1 if none)
UnescapeScan(data) ==
    LET hits == {i \in 1..Len(data) : data[i] = ESCAPE_VALUE} IN
    IF hits = {} THEN Len(data) + 1
    ELSE CHOOSE i \in hits : \A j \in hits : i <= j

\* unescape, body of the second loop: st is (new_data, unescape_next)
UnescapeByte(st, byte) ==
    IF st.unescape_next
    THEN [new_data |-> Append(st.new_data, Not8(byte)), unescape_next |-> FALSE]
    ELSE IF byte = ESCAPE_VALUE
    THEN [new_data |-> st.new_data, unescape_next |-> TRUE]
    ELSE [new_data |-> Append(st.new_data, byte), unescape_next |-> FALSE]

\* unescape, second loop over data[lo..hi] from the state st (by halves)
RECURSIVE UnescapeRest(_, _, _, _)
UnescapeRest(data, lo, hi, st) ==
    IF lo > hi THEN st
    ELSE IF lo = hi THEN UnescapeByte(st, data[lo])
    ELSE LET mid == (lo + hi) \div 2
             first == UnescapeRest(data, lo, mid, st)
         IN \* the test has the first half evaluated before the second is entered
            IF first.unescape_next \in BOOLEAN
            THEN UnescapeRest(data, mid + 1, hi, first)
            ELSE first

unescape(data) ==
    LET i == UnescapeScan(data) IN
    IF i > Len(data) THEN data
    ELSE UnescapeRest(data, i, Len(data),
                      [new_data |-> SubSeq(data, 1, i - 1),
                       unescape_next |-> FALSE]).new_data

append_crc(data) == Append(data, calc_crc(data))

\* verify_and_remove_crc without the comparison of line 309
verify_and_remove_crc_Unchecked(data) ==
    IF Len(data) = 0 THEN [some |-> FALSE, body |-> <<>>]
    ELSE [some |-> TRUE, body |-> SubSeq(data, 1, Len(data) - 1)]

\* Option<&[u8]>: some = FALSE is None
verify_and_remove_crc(data) ==
    IF Len(data) = 0 THEN [some |-> FALSE, body |-> <<>>]
    ELSE LET crc == data[Len(data)]
             body == SubSeq(data, 1, Len(data) - 1)
         IN IF crc # calc_crc(body) THEN [some |-> FALSE, body |-> <<>>]
            ELSE [some |-> TRUE, body |-> body]

----------------------------------------------------------------------------
\* Results: Result<Vec<u8>, EXOlineError> (client_impl.rs:17-48)

NoResult == [st |-> "none", data |-> <<>>, kind |-> "", msg |-> "", code |-> 0]
Ok(data) == [st |-> "ok", data |-> data, kind |-> "", msg |-> "", code |-> 0]
ErrIO == [st |-> "err", data |-> <<>>, kind |-> "IO", msg |-> "", code |-> 0]
ErrInvalidArguments(m) ==
    [st |-> "err", data |-> <<>>, kind |-> "InvalidArguments", msg |-> m, code |-> 0]
ErrInvalidResponse(m) ==
    [st |-> "err", data |-> <<>>, kind |-> "InvalidResponse", msg |-> m, code |-> 0]
ErrException(c) ==
    [st |-> "err", data |-> <<>>, kind |-> "ExolineException", msg |-> "", code |-> c]

\* EXOlineException: FromPrimitive with catch_all Unknown(u8)
ExceptionCodes ==
    (1..26) \cup {28, 29, 32, 33, 34, 35, 37, 38, 39, 41}

ExceptionName(c) ==
    CASE c = 1 -> "WrongType"
      [] c = 2 -> "WrongSLn"
      [] c = 3 -> "WrongDLn"
      [] c = 4 -> "WrongTLn"
      [] c = 29 -> "TooBigMaxLength"
      [] c = 41 -> "AddressOutsideRange"
      [] c \in ExceptionCodes -> "Named"
      [] OTHER -> "Unknown"

AddressOutsideRange == 41

\* The tail of send_request, applied to the value received on the oneshot.
SendRequestTail(received) ==
    IF received.st = "err" THEN received
    ELSE LET response_data == received.data IN
         IF Len(response_data) = 1 THEN ErrException(response_data[1])
         ELSE LET v == verify_and_remove_crc(unescape(response_data)) IN
              IF ~v.some THEN ErrInvalidResponse("CRC mismatch")
              ELSE Ok(v.body)

----------------------------------------------------------------------------
\* The device of the multiplexer model: it answers the request of caller c
\* with the body <<c>> followed by its CRC, so that a caller can tell whose
\* answer it was handed.

DeviceBody(c) == <<100 + c>>
DevicePayload(c) == escape(append_crc(DeviceBody(c)))
UnsolicitedPayload == escape(append_crc(<<99>>))

----------------------------------------------------------------------------
\* Multiplexer: EXOlineTCPClient::send_request, ::receive_response,
\* Connection::write_request, Connection::read_response (frame granularity).

MuxInit ==
    /\ pc = [c \in Callers |-> "idle"]
    /\ response_queue = <<>>
    /\ writer = 0
    /\ writerShut = FALSE
    /\ wire = <<>>
    /\ answered = 0
    /\ inbound = <<>>
    /\ peerClosed = FALSE
    /\ unsolicited = 0
    /\ readerPc = "reading"
    /\ readerMsg = <<>>
    /\ readerErr = ""
    /\ loopResult = "running"
    /\ slot = [c \in Callers |-> NoResult]
    /\ completions = <<>>
    /\ enqOrder = <<>>
    /\ result = [c \in Callers |-> NoResult]

\* send_request lines 740-745: create the oneshot, lock the queue, push_back.
\* Callers are interchangeable: they are numbered in the order they get here.
Enqueue(c) ==
    /\ UNCHANGED cliVars
    /\ UNCHANGED pureVars
    /\ pc[c] = "idle"
    /\ \A b \in Callers : b < c => pc[b] # "idle"
    /\ pc' = [pc EXCEPT ![c] = "locking"]
    /\ response_queue' = Append(response_queue, c)
    /\ enqOrder' = Append(enqOrder, c)
    /\ UNCHANGED <<writer, writerShut, wire, answered, inbound, peerClosed,
                   unsolicited, readerPc, readerMsg, readerErr, loopResult,
                   slot, completions, result>>

\* one lock for the whole stream: the writer is had only while no read is pending
AcquireWriterWhenNotReading(c) ==
    /\ UNCHANGED cliVars
    /\ UNCHANGED pureVars
    /\ pc[c] = "locking"
    /\ writer = 0
    /\ readerPc # "reading"
    /\ writer' = c
    /\ pc' = [pc EXCEPT ![c] = "writing"]
    /\ UNCHANGED <<response_queue, writerShut, wire, answered, inbound,
                   peerClosed, unsolicited, readerPc, readerMsg, readerErr,
                   loopResult, slot, completions, enqOrder, result>>

\* write_request line 85: self.writer.lock().await
AcquireWriter(c) ==
    /\ UNCHANGED cliVars
    /\ UNCHANGED pureVars
    /\ pc[c] = "locking"
    /\ writer = 0
    /\ writer' = c
    /\ pc' = [pc EXCEPT ![c] = "writing"]
    /\ UNCHANGED <<response_queue, writerShut, wire, answered, inbound,
                   peerClosed, unsolicited, readerPc, readerMsg, readerErr,
                   loopResult, slot, completions, enqOrder, result>>

\* write_request lines 87-92: the frame is written and flushed, the guard dropped.
WriteOk(c) ==
    /\ UNCHANGED cliVars
    /\ UNCHANGED pureVars
    /\ pc[c] = "writing"
    /\ ~writerShut
    /\ wire' = Append(wire, [req |-> c, complete |-> TRUE])
    /\ writer' = 0
    /\ pc' = [pc EXCEPT ![c] = "awaiting"]
    /\ UNCHANGED <<response_queue, writerShut, answered, inbound, peerClosed,
                   unsolicited, readerPc, readerMsg, readerErr, loopResult,
                   slot, completions, enqOrder, result>>

\* write_request returns Err; send_request lines 747-750 return IO.
WriteFail(c) ==
    /\ UNCHANGED cliVars
    /\ UNCHANGED pureVars
    /\ pc[c] = "writing"
    /\ writer' = 0
    /\ pc' = [pc EXCEPT ![c] = "returned"]
    /\ result' = [result EXCEPT ![c] = ErrIO]
    /\ UNCHANGED <<response_queue, writerShut, wire, answered, inbound,
                   peerClosed, unsolicited, readerPc, readerMsg, readerErr,
                   loopResult, slot, completions, enqOrder>>

\* send_request lines 752-764: the oneshot has a value.
Return(c) ==
    /\ UNCHANGED cliVars
    /\ UNCHANGED pureVars
    /\ pc[c] = "awaiting"
    /\ slot[c].st # "none"
    /\ pc' = [pc EXCEPT ![c] = "returned"]
    /\ result' = [result EXCEPT ![c] = SendRequestTail(slot[c])]
    /\ UNCHANGED <<response_queue, writer, writerShut, wire, answered, inbound,
                   peerClosed, unsolicited, readerPc, readerMsg, readerErr,
                   loopResult, slot, completions, enqOrder>>

\* The caller's future is dropped at one of the awaits of send_request:
\* the writer lock (line 85), the socket write (87-90), the oneshot (752).
\* A guard that is held is released; a frame being written stays incomplete.
Abandon(c) ==
    /\ UNCHANGED cliVars
    /\ UNCHANGED pureVars
    /\ pc[c] \in {"locking", "writing", "awaiting"}
    /\ pc' = [pc EXCEPT ![c] = "abandoned"]
    /\ writer' = IF writer = c THEN 0 ELSE writer
    /\ wire' = IF pc[c] = "writing"
               THEN Append(wire, [req |-> c, complete |-> FALSE])
               ELSE wire
    /\ UNCHANGED <<response_queue, writerShut, answered, inbound, peerClosed,
                   unsolicited, readerPc, readerMsg, readerErr, loopResult,
                   slot, completions, enqOrder, result>>

\* The device reads the next frame off the socket and answers a complete one.
DeviceRespond ==
    /\ UNCHANGED cliVars
    /\ UNCHANGED pureVars
    /\ answered < Len(wire)
    /\ ~peerClosed
    /\ answered' = answered + 1
    /\ inbound' = IF wire[answered + 1].complete
                  THEN Append(inbound, DevicePayload(wire[answered + 1].req))
                  ELSE inbound
    /\ UNCHANGED <<pc, response_queue, writer, writerShut, wire, peerClosed,
                   unsolicited, readerPc, readerMsg, readerErr, loopResult,
                   slot, completions, enqOrder, result>>

\* The device sends a frame nobody asked for.
DeviceUnsolicited ==
    /\ UNCHANGED cliVars
    /\ UNCHANGED pureVars
    /\ unsolicited < MaxUnsolicited
    /\ ~peerClosed
    /\ unsolicited' = unsolicited + 1
    /\ inbound' = Append(inbound, UnsolicitedPayload)
    /\ UNCHANGED <<pc, response_queue, writer, writerShut, wire, answered,
                   peerClosed, readerPc, readerMsg, readerErr, loopResult,
                   slot, completions, enqOrder, result>>

\* The device closes its side of the stream.
DeviceClose ==
    /\ UNCHANGED cliVars
    /\ UNCHANGED pureVars
    /\ ~peerClosed
    /\ peerClosed' = TRUE
    /\ UNCHANGED <<pc, response_queue, writer, writerShut, wire, answered,
                   inbound, unsolicited, readerPc, readerMsg, readerErr,
                   loopResult, slot, completions, enqOrder, result>>

\* receive_response line 76, Ok(Some(msg)): read_response returned a frame.
ReadFrame ==
    /\ UNCHANGED cliVars
    /\ UNCHANGED pureVars
    /\ readerPc = "reading"
    /\ inbound # <<>>
    /\ readerMsg' = Head(inbound)
    /\ inbound' = Tail(inbound)
    /\ readerPc' = "got"
    /\ UNCHANGED <<pc, response_queue, writer, writerShut, wire, answered,
                   peerClosed, unsolicited, readerErr, loopResult, slot,
                   completions, enqOrder, result>>

\* the loop dropping a frame it finds no sender for, and reading on
DeliverFrameDropsExtra ==
    /\ UNCHANGED cliVars
    /\ UNCHANGED pureVars
    /\ readerPc = "got"
    /\ readerMsg' = <<>>
    /\ readerPc' = "reading"
    /\ IF response_queue = <<>>
       THEN UNCHANGED <<response_queue, slot, completions>>
       ELSE LET sender == Head(response_queue) IN
            /\ response_queue' = Tail(response_queue)
            /\ slot' = [slot EXCEPT ![sender] = Ok(readerMsg)]
            /\ completions' = Append(completions, [to |-> sender, val |-> Ok(readerMsg)])
    /\ UNCHANGED <<pc, writer, writerShut, wire, answered, inbound, peerClosed,
                   unsolicited, readerErr, loopResult, enqOrder, result>>

\* receive_response lines 92-96: pop the oldest sender and hand it the frame.
DeliverFrame ==
    /\ UNCHANGED cliVars
    /\ UNCHANGED pureVars
    /\ readerPc = "got"
    /\ readerMsg' = <<>>
    /\ IF response_queue = <<>>
       THEN /\ readerPc' = "done"
            /\ loopResult' = "InvalidResponse:unexpected"
            /\ UNCHANGED <<response_queue, slot, completions>>
       ELSE LET sender == Head(response_queue) IN
            /\ response_queue' = Tail(response_queue)
            /\ slot' = [slot EXCEPT ![sender] = Ok(readerMsg)]
            /\ completions' = Append(completions, [to |-> sender, val |-> Ok(readerMsg)])
            /\ readerPc' = "reading"
            /\ UNCHANGED loopResult
    /\ UNCHANGED <<pc, writer, writerShut, wire, answered, inbound, peerClosed,
                   unsolicited, readerErr, enqOrder, result>>

\* read_response returns Err: an IO error of the socket, or InvalidData.
ReadError(e) ==
    /\ UNCHANGED cliVars
    /\ UNCHANGED pureVars
    /\ readerPc = "reading"
    /\ readerErr' = e
    /\ readerPc' = "failing"
    /\ UNCHANGED <<pc, response_queue, writer, writerShut, wire, answered,
                   inbound, peerClosed, unsolicited, readerMsg, loopResult,
                   slot, completions, enqOrder, result>>

\* receive_response lines 80-83: ReadError -> EXOlineError
ReadErrorValue(e) ==
    IF e = "IO" THEN ErrIO
    ELSE ErrInvalidResponse("The server sent invalid data")

LoopError(e) ==
    IF e = "IO" THEN "IO" ELSE "InvalidResponse:invalid data"

\* DrainQueue with `if let` in place of `while let`: only the oldest sender is served.
DrainQueueOnlyFirst(queue, slots, log, error) ==
    IF queue = <<>> THEN [queue |-> queue, slots |-> slots, log |-> log]
    ELSE [queue |-> Tail(queue),
          slots |-> [slots EXCEPT ![Head(queue)] = error],
          log |-> Append(log, [to |-> Head(queue), val |-> error])]

\* receive_response lines 85-87: while let Some(sender) = pop_front() { send }
RECURSIVE DrainQueue(_, _, _, _)
DrainQueue(queue, slots, log, error) ==
    IF queue = <<>> THEN [queue |-> queue, slots |-> slots, log |-> log]
    ELSE LET sender == Head(queue) IN
         DrainQueue(Tail(queue),
                    [slots EXCEPT ![sender] = error],
                    Append(log, [to |-> sender, val |-> error]),
                    error)

\* receive_response lines 84-88: fan the error out and terminate.
Drain ==
    /\ UNCHANGED cliVars
    /\ UNCHANGED pureVars
    /\ readerPc = "failing"
    /\ LET d == DrainQueue(response_queue, slot, completions, ReadErrorValue(readerErr)) IN
       /\ response_queue' = d.queue
       /\ slot' = d.slots
       /\ completions' = d.log
    /\ loopResult' = LoopError(readerErr)
    /\ readerPc' = "done"
    /\ UNCHANGED <<pc, writer, writerShut, wire, answered, inbound, peerClosed,
                   unsolicited, readerMsg, readerErr, enqOrder, result>>

\* read_response lines 44-46: read returned 0 bytes.
ReadEof ==
    /\ UNCHANGED cliVars
    /\ UNCHANGED pureVars
    /\ readerPc = "reading"
    /\ inbound = <<>>
    /\ peerClosed
    /\ readerPc' = "closing"
    /\ UNCHANGED <<pc, response_queue, writer, writerShut, wire, answered,
                   inbound, peerClosed, unsolicited, readerMsg, readerErr,
                   loopResult, slot, completions, enqOrder, result>>

\* read_response returning Ok(None) without touching the writer
ShutdownLeavesWriter ==
    /\ UNCHANGED cliVars
    /\ UNCHANGED pureVars
    /\ readerPc = "closing"
    /\ readerPc' = "done"
    /\ loopResult' = "Ok"
    /\ UNCHANGED <<pc, response_queue, writer, writerShut, wire, answered, inbound,
                   peerClosed, unsolicited, readerMsg, readerErr, slot,
                   completions, enqOrder, result>>

\* read_response lines 47-48 and receive_response line 78:
\* lock the writer, shut it down, return Ok(None); the loop returns Ok(()).
Shutdown ==
    /\ UNCHANGED cliVars
    /\ UNCHANGED pureVars
    /\ readerPc = "closing"
    /\ writer = 0
    /\ writerShut' = TRUE
    /\ readerPc' = "done"
    /\ loopResult' = "Ok"
    /\ UNCHANGED <<pc, response_queue, writer, wire, answered, inbound,
                   peerClosed, unsolicited, readerMsg, readerErr, slot,
                   completions, enqOrder, result>>
----------------------------------------------------------------------------
\* Values and encoders: client/variant.rs, client/internal/encoding.rs,
\* client/internal/commands/*.rs

FileKinds == {"Task", "VPac", "BPac", "Text"}
VariableKinds == {"Huge", "Index", "Integer", "Logic", "Real", "String"}

\* Variant: num carries the i32 / u8 / i16 / bool (0, 1), or the bit pattern
\* of an f32 read as an i32; str the characters of a String (code points).
Variant(tag, num, str) == [tag |-> tag, num |-> num, str |-> str]

\* CommandFileKind as u8 (commands/mod.rs)
CommandFileKindByte(kind) ==
    CASE kind = "VPac" -> 0
      [] kind = "Task" -> 1
      [] kind = "BPac" -> 2

\* PartAttrHeaderKind as u8 (read_part_attr_header.rs)
PartAttrHeaderKindByte(kind) ==
    CASE kind = "Huge" -> 16
      [] kind = "Real" -> 18
      [] kind = "String" -> 20

\* value.to_le_bytes() of an n-byte integer; % and \div floor, which yields
\* the two's complement bytes of a negative value
RECURSIVE LeBytesOf(_, _)
LeBytesOf(v, n) ==
    IF n = 0 THEN <<>> ELSE <<v % 256>> \o LeBytesOf(v \div 256, n - 1)

to_le_bytes(v, n) == LeBytesOf(v, n)

write_u8(v) == <<v>>
write_u16(v) == to_le_bytes(v, 2)
write_i16(v) == to_le_bytes(v, 2)
\* &value.to_le_bytes()[0..3] of a u32
write_u24(v) == SubSeq(to_le_bytes(v, 4), 1, 3)
write_i32(v) == to_le_bytes(v, 4)
\* an f32 is carried as its bit pattern
write_f32(bits) == to_le_bytes(bits, 4)

\* oem_cp::encode_string_lossy with the CP850 table: ASCII is kept, the
\* Latin-1 letter e-acute (U+00E9) is 0x82, anything unmappable becomes '?'.
Cp850Of(ch) == IF ch < 128 THEN ch ELSE IF ch = 233 THEN 130 ELSE 63

encode_string_lossy(str) == [i \in 1..Len(str) |-> Cp850Of(str[i])]

\* the longest string, in CP850 bytes, write_string accepts
MaxStringBytes == 127

\* EncodeResult with the bytes written
EncOk(bytes) == [ok |-> TRUE, bytes |-> bytes]
EncOverflow == [ok |-> FALSE, bytes |-> <<>>]

write_string(str) ==
    LET bytes == encode_string_lossy(str) IN
    IF Len(bytes) > MaxStringBytes THEN EncOverflow ELSE EncOk(bytes)

\* Requests: what the facade hands to send_request.
Request(type, kind, load_number, offset, value) ==
    [type |-> type, kind |-> kind, load_number |-> load_number,
     offset |-> offset, value |-> value]

NoValue == Variant("None", 0, <<>>)

\* the [file_kind, load_number, offset(u24)] head shared by reads and writes
AddressHead(request) ==
    write_u8(CommandFileKindByte(request.kind)) \o write_u8(request.load_number)
        \o write_u24(request.offset)

\* WriteIntegerRequest::encode
EncodeWriteInteger(request) ==
    EncOk(AddressHead(request) \o write_i16(request.value.num))

\* WriteRealRequest::encode
EncodeWriteReal(request) ==
    EncOk(AddressHead(request) \o write_f32(request.value.num))

\* Encodable::encode of each request type
EncodeBody(request) ==
    CASE request.type = "ReadRequest" -> EncOk(AddressHead(request))
      [] request.type = "WriteHugeRequest" ->
            EncOk(AddressHead(request) \o write_i32(request.value.num))
      [] request.type = "WriteIndexRequest" ->
            EncOk(AddressHead(request) \o write_u8(request.value.num))
      [] request.type = "WriteIntegerRequest" -> EncodeWriteInteger(request)
      [] request.type = "WriteLogicRequest" ->
            EncOk(AddressHead(request) \o write_u8(request.value.num))
      [] request.type = "WriteRealRequest" -> EncodeWriteReal(request)
      [] request.type = "WriteStringRequest" ->
            LET s == write_string(request.value.str) IN
            IF s.ok THEN EncOk(AddressHead(request) \o s.bytes) ELSE EncOverflow
      [] request.type = "ReadDPacPageRequest" ->
            \* load_number, page (carried in offset)
            EncOk(write_u8(request.load_number) \o write_u8(request.offset))
      [] request.type = "GetControllerIdRequest" -> EncOk(<<>>)
      [] request.type = "ReadPartAttrHeader" ->
            \* kind, part_no (carried in load_number), attr (carried in offset)
            EncOk(write_u8(PartAttrHeaderKindByte(request.kind))
                      \o write_u8(request.load_number) \o write_u16(request.offset))

----------------------------------------------------------------------------
\* The typed operations up to their send_request: client_impl.rs 219-722

\* what an operation does first: fail locally, or send one request
Fail(error) == [send |-> FALSE, error |-> error, cmd |-> "",
                request |-> Request("", "", 0, 0, NoValue)]
Send(cmd, request) == [send |-> TRUE, error |-> NoResult, cmd |-> cmd,
                       request |-> request]

ReadCommand(variable_kind) ==
    CASE variable_kind = "Huge" -> "ReadHuge"
      [] variable_kind = "Index" -> "ReadIndex"
      [] variable_kind = "Integer" -> "ReadInteger"
      [] variable_kind = "Logic" -> "ReadLogic"
      [] variable_kind = "Real" -> "ReadReal"
      [] variable_kind = "String" -> "ReadString"

WriteCommand(variable_kind) ==
    CASE variable_kind = "Huge" -> "WriteHuge"
      [] variable_kind = "Index" -> "WriteIndex"
      [] variable_kind = "Integer" -> "WriteInteger"
      [] variable_kind = "Logic" -> "WriteLogic"
      [] variable_kind = "Real" -> "WriteReal"
      [] variable_kind = "String" -> "WriteString"

WriteRequestType(variable_kind) ==
    CASE variable_kind = "Huge" -> "WriteHugeRequest"
      [] variable_kind = "Index" -> "WriteIndexRequest"
      [] variable_kind = "Integer" -> "WriteIntegerRequest"
      [] variable_kind = "Logic" -> "WriteLogicRequest"
      [] variable_kind = "Real" -> "WriteRealRequest"
      [] variable_kind = "String" -> "WriteStringRequest"

\* read_variable_raw with every combination put on the wire
read_variable_raw_NoChecks(file_kind, load_number, variable_kind, offset) ==
    Send(ReadCommand(variable_kind),
         Request("ReadRequest", IF file_kind = "Text" THEN "VPac" ELSE file_kind,
                 load_number, offset, NoValue))

\* read_variable_raw, lines 255-395
read_variable_raw(file_kind, load_number, variable_kind, offset) ==
    CASE file_kind \in {"Task", "VPac"} ->
            Send(ReadCommand(variable_kind),
                 Request("ReadRequest", file_kind, load_number, offset, NoValue))
      [] file_kind = "BPac" ->
            IF variable_kind = "String"
            THEN Fail(ErrInvalidArguments("Can't read a string from a BPac"))
            ELSE Send(ReadCommand(variable_kind),
                      Request("ReadRequest", "BPac", load_number, offset, NoValue))
      [] file_kind = "Text" ->
            IF variable_kind = "String"
            THEN Send("ReadString",
                      Request("ReadRequest", "VPac", load_number, offset, NoValue))
            ELSE Fail(ErrInvalidArguments("Can only read strings from text files"))

\* write_variable_raw, lines 411-670
write_variable_raw(file_kind, load_number, variable_kind, offset, value) ==
    CASE file_kind \in {"Task", "VPac"} ->
            IF value.tag # variable_kind
            THEN Fail(ErrInvalidArguments("The variable and value kind doesn't match"))
            ELSE Send(WriteCommand(variable_kind),
                      Request(WriteRequestType(variable_kind), file_kind,
                              load_number, offset, value))
      [] file_kind = "BPac" ->
            IF variable_kind = "String"
            THEN Fail(ErrInvalidArguments("Can't write a string to a BPac"))
            ELSE IF value.tag # variable_kind
            THEN Fail(ErrInvalidArguments("The variable and value kind doesn't match"))
            ELSE Send(WriteCommand(variable_kind),
                      Request(WriteRequestType(variable_kind), "BPac",
                              load_number, offset, value))
      [] file_kind = "Text" ->
            IF variable_kind # "String"
            THEN Fail(ErrInvalidArguments("Can only write strings to text files"))
            ELSE IF value.tag # "String"
            THEN Fail(ErrInvalidArguments("The variable and value kind doesn't match"))
            ELSE Send("ReadString",
                      Request("WriteStringRequest", "VPac", load_number, offset, value))

\* read_partition_attribute, lines 680-722
read_partition_attribute(partition, attribute_kind, attribute_id) ==
    IF attribute_kind \in {"Huge", "Real", "String"}
    THEN Send("ReadPartAttrHeader",
              Request("ReadPartAttrHeader", attribute_kind, partition,
                      attribute_id, NoValue))
    ELSE Fail(ErrInvalidArguments("Can't read this kind from a partition header"))

\* read_dpac_page_raw, lines 219-228
read_dpac_page_raw(file_kind, load_number, page) ==
    IF file_kind \in {"BPac", "VPac"}
    THEN Send("ReadDPacPage",
              Request("ReadDPacPageRequest", file_kind, load_number, page, NoValue))
    ELSE Fail(ErrInvalidArguments("Can only read pages from DPac's"))

\* read_controller_id, lines 673-674
read_controller_id == Send("GetControllerId",
                           Request("GetControllerIdRequest", "VPac", 0, 0, NoValue))

----------------------------------------------------------------------------
\* Decoders: client/internal/encoding.rs 124-215, commands/*_response.rs

\* u32::from_le_bytes / u16::from_le_bytes over bytes[from .. from + n)
RECURSIVE LeValue(_, _, _)
LeValue(bytes, from, n) ==
    IF n = 0 THEN 0 ELSE bytes[from] + (256 * LeValue(bytes, from + 1, n - 1))

\* i32::from_le_bytes / i16::from_le_bytes: two's complement
SignedLe(bytes, from, n) ==
    LET top == bytes[from + n - 1] IN
    LeValue(bytes, from, n - 1)
        + ((IF top >= 128 THEN top - 256 ELSE top) * (2 ^ (8 * (n - 1))))

\* oem_cp::decode_string_complete_table with the CP850 table
CharOfCp850(b) == IF b < 128 THEN b ELSE IF b = 130 THEN 233 ELSE 256 + b

\* Decoder::read_string: at most 127 of the remaining bytes
read_string(bytes) ==
    LET len == IF Len(bytes) < MaxStringBytes THEN Len(bytes) ELSE MaxStringBytes
    IN [i \in 1..len |-> CharOfCp850(bytes[i])]

\* results of the public operations: a Variant, (), or the map of read_dpac
OpNone == [st |-> "none", kind |-> "", msg |-> "", code |-> 0,
           value |-> NoValue, map |-> {}]
OpOk(value, map) == [st |-> "ok", kind |-> "", msg |-> "", code |-> 0,
                     value |-> value, map |-> map]
OpErr(e) == [st |-> "err", kind |-> e.kind, msg |-> e.msg, code |-> e.code,
             value |-> NoValue, map |-> {}]

Unit == Variant("Unit", 0, <<>>)

DecodeFailed == OpErr(ErrInvalidResponse("Error when decoding response"))

\* Read<Kind>Response::decode_from_bytes and the Variant built from it
DecodeVariant(kind, body) ==
    CASE kind = "Huge" ->
            IF Len(body) < 4 THEN DecodeFailed
            ELSE OpOk(Variant("Huge", SignedLe(body, 1, 4), <<>>), {})
      [] kind = "Index" ->
            IF Len(body) < 1 THEN DecodeFailed
            ELSE OpOk(Variant("Index", body[1], <<>>), {})
      [] kind = "Integer" ->
            IF Len(body) < 2 THEN DecodeFailed
            ELSE OpOk(Variant("Integer", SignedLe(body, 1, 2), <<>>), {})
      [] kind = "Logic" ->
            IF Len(body) < 1 THEN DecodeFailed
            ELSE OpOk(Variant("Logic", IF body[1] # 0 THEN 1 ELSE 0, <<>>), {})
      [] kind = "Real" ->
            IF Len(body) < 4 THEN DecodeFailed
            ELSE OpOk(Variant("Real", SignedLe(body, 1, 4), <<>>), {})
      [] kind = "String" -> OpOk(Variant("String", 0, read_string(body)), {})

----------------------------------------------------------------------------
\* Sizes: controller/internal/variable_internal.rs 98-122

page_size_of_vpac_variable(kind) ==
    CASE kind \in {"Huge", "Real", "String"} -> 6
      [] kind = "Integer" -> 4
      [] kind \in {"Index", "Logic"} -> 2

page_size_of_bpac_variable(kind) ==
    CASE kind \in {"Huge", "Real"} -> 4
      [] kind = "Integer" -> 2
      [] kind \in {"Index", "Logic", "String"} -> 1

\* bytes of one DPac page
PageBytes == 120
\* a page counter that goes on to 256, which `page as u8` turns into 0
LastPageBeyondU8 == 255 + 1

\* the page counter stops here
LastPage == 255

----------------------------------------------------------------------------
\* read_dpac_internal: client_impl.rs 120-216

\* HashMap<Variable, Variant>::insert; Variable equality is (kind, offset)
\* within one file
MapInsert(map, variable, variant) ==
    {e \in map : ~(e.kind = variable.kind /\ e.offset = variable.offset)}
        \cup {[kind |-> variable.kind, offset |-> variable.offset, value |-> variant]}

\* page_offset with the VPac factor left out
PageOffsetUnscaled(file_kind, variable) == variable.offset

\* lines 136-142: position of the variable in the page stream
PageOffset(file_kind, variable) ==
    IF file_kind = "BPac" THEN variable.offset ELSE variable.offset * 2

PageSize(file_kind, variable) ==
    IF file_kind = "BPac" THEN page_size_of_bpac_variable(variable.kind)
    ELSE page_size_of_vpac_variable(variable.kind)

\* lines 192-210: the Variant decoded from the variable's bytes, which start
\* at position `at` (1-based) of data
DPacVariant(file_kind, kind, data, at) ==
    LET p == IF file_kind = "VPac" THEN at + 1 ELSE at IN
    CASE kind = "Huge" -> Variant("Huge", SignedLe(data, p, 4), <<>>)
      [] kind = "Index" -> Variant("Index", data[p], <<>>)
      [] kind = "Integer" -> Variant("Integer", SignedLe(data, p, 2), <<>>)
      [] kind = "Logic" -> Variant("Logic", IF data[p] # 0 THEN 1 ELSE 0, <<>>)
      [] kind = "Real" -> Variant("Real", SignedLe(data, p, 4), <<>>)

\* data_offset taken from the start of the file also for a single page
DataOffsetAbsolute(only_page, page_offset) == page_offset

\* lines 152-155: where the variable begins in the data fetched
DataOffset(only_page, page_offset) ==
    IF only_page = -1 THEN page_offset ELSE page_offset % PageBytes

\* The for loop of lines 131-213, run from the state d until it has to await
\* a page (status "request") or has visited every variable ("finish").
RECURSIVE DPacRun(_, _)
DPacRun(c, d) ==
    IF d.idx > Len(c.variables) THEN [status |-> "finish", d |-> d, page |-> 0]
    ELSE
    LET variable == c.variables[d.idx]
        next == [d EXCEPT !.idx = @ + 1]
    IN
    IF variable.kind = "String" THEN DPacRun(c, next)
    ELSE
    LET page_size == PageSize(c.file_kind, variable)
        page_offset == PageOffset(c.file_kind, variable)
        data_offset == DataOffset(c.only_page, page_offset)
    IN
    IF c.only_page # -1 /\ page_offset \div PageBytes # c.only_page
    THEN DPacRun(c, next)
    ELSE IF data_offset + page_size <= Len(d.data)
    THEN DPacRun(c, [next EXCEPT !.result =
                        MapInsert(@, variable,
                                  DPacVariant(c.file_kind, variable.kind,
                                              d.data, data_offset + 1))])
    ELSE IF d.page >= LastPage THEN DPacRun(c, next)
    ELSE [status |-> "request",
          d |-> [d EXCEPT !.page = @ + 1],
          page |-> IF c.only_page = -1 THEN (d.page + 1) % 256 ELSE c.only_page]

\* next_data.resize(120, 0)
Resize(bytes) ==
    [i \in 1..PageBytes |-> IF i <= Len(bytes) THEN bytes[i] ELSE 0]

\* the outcome of the page request with AddressOutsideRange handed to the
\* caller like any other error
DPacOnPageAorFails(c, d, r) ==
    IF r.st = "ok"
    THEN [status |-> "continue",
          d |-> [d EXCEPT !.data = @ \o Resize(r.data),
                          !.page = IF c.only_page # -1 THEN LastPage ELSE @]]
    ELSE [status |-> "error", d |-> d]

\* the outcome of the page request with every error taken for the end of
\* the pages
DPacOnPageSkipsErrors(c, d, r) ==
    IF r.st = "ok"
    THEN [status |-> "continue",
          d |-> [d EXCEPT !.data = @ \o Resize(r.data),
                          !.page = IF c.only_page # -1 THEN LastPage ELSE @]]
    ELSE [status |-> "continue",
          d |-> [d EXCEPT !.page = LastPage, !.idx = @ + 1]]

\* the outcome of the page request with AddressOutsideRange ending the whole
\* loop instead of the one variable
DPacOnPageAorEndsLoop(c, d, r) ==
    IF r.st = "ok"
    THEN [status |-> "continue",
          d |-> [d EXCEPT !.data = @ \o Resize(r.data),
                          !.page = IF c.only_page # -1 THEN LastPage ELSE @]]
    ELSE IF r.kind = "ExolineException" /\ r.code = AddressOutsideRange
    THEN [status |-> "continue",
          d |-> [d EXCEPT !.page = LastPage, !.idx = Len(c.variables) + 1]]
    ELSE [status |-> "error", d |-> d]

\* lines 170-182: the outcome of the awaited page request, r being what
\* send_request returned
DPacOnPage(c, d, r) ==
    IF r.st = "ok"
    THEN [status |-> "continue",
          d |-> [d EXCEPT !.data = @ \o Resize(r.data),
                          !.page = IF c.only_page # -1 THEN LastPage ELSE @]]
    ELSE IF r.kind = "ExolineException" /\ r.code = AddressOutsideRange
    THEN [status |-> "continue",
          d |-> [d EXCEPT !.page = LastPage, !.idx = @ + 1]]
    ELSE [status |-> "error", d |-> d]

DPacStart == [data |-> <<>>, page |-> -1, idx |-> 1, result |-> {}]

----------------------------------------------------------------------------
\* Connection::read_response, connection.rs 38-82, over the bytes received.

\* largest buffer length at which a byte is still pushed
MaxFrame == 1024

\* the state of the loop: buffer (Option<Vec<u8>>), and how it ended
\* ("reading": it has not ended), the frame returned, the bytes consumed
ReadStart == [kind |-> "reading", some |-> FALSE, data |-> <<>>, used |-> 0]

\* the loop taking a 0x02 inside an open frame for a byte of the payload
ReadByteKeepsRequestMarker(st, byte) ==
    LET used == st.used + 1
        invalid == [kind |-> "invalid", some |-> FALSE, data |-> <<>>, used |-> used]
    IN
    CASE byte = BEGIN_RESPONSE ->
            IF st.some THEN invalid
            ELSE [kind |-> "reading", some |-> TRUE, data |-> <<>>, used |-> used]
      [] byte = END_MESSAGE ->
            IF ~st.some THEN invalid
            ELSE [kind |-> "frame", some |-> FALSE, data |-> st.data, used |-> used]
      [] OTHER ->
            IF ~st.some THEN invalid
            ELSE IF Len(st.data) > MaxFrame THEN invalid
            ELSE [kind |-> "reading", some |-> TRUE,
                  data |-> Append(st.data, byte), used |-> used]

\* body of the loop for one byte
ReadByte(st, byte) ==
    LET used == st.used + 1
        invalid == [kind |-> "invalid", some |-> FALSE, data |-> <<>>, used |-> used]
    IN
    CASE byte = BEGIN_RESPONSE ->
            IF st.some THEN invalid
            ELSE [kind |-> "reading", some |-> TRUE, data |-> <<>>, used |-> used]
      [] byte = BEGIN_REQUEST -> invalid
      [] byte = END_MESSAGE ->
            IF ~st.some THEN invalid
            ELSE [kind |-> "frame", some |-> FALSE, data |-> st.data, used |-> used]
      [] OTHER ->
            IF ~st.some THEN invalid
            ELSE IF Len(st.data) > MaxFrame THEN invalid
            ELSE [kind |-> "reading", some |-> TRUE,
                  data |-> Append(st.data, byte), used |-> used]

\* the loop over stream[lo..hi] from the state st, stopping at the first
\* return (by halves)
RECURSIVE ReadResponseFrom(_, _, _, _)
ReadResponseFrom(stream, lo, hi, st) ==
    IF lo > hi \/ st.kind # "reading" THEN st
    ELSE IF lo = hi THEN ReadByte(st, stream[lo])
    ELSE LET mid == (lo + hi) \div 2 IN
         ReadResponseFrom(stream, mid + 1, hi, ReadResponseFrom(stream, lo, mid, st))

\* kind "pending": every byte was consumed and the read awaits more
read_response(stream) ==
    LET st == ReadResponseFrom(stream, 1, Len(stream), ReadStart) IN
    [kind |-> IF st.kind = "reading" THEN "pending" ELSE st.kind,
     msg |-> IF st.kind = "frame" THEN st.data ELSE <<>>,
     rest |-> SubSeq(stream, st.used + 1, Len(stream))]

----------------------------------------------------------------------------
\* send_request up to its await, client_impl.rs 728-750, for one caller
\* whose write succeeds: encode, push the slot, write the frame.

\* send_request pushing its slot before it encodes the request
send_request_head_EnqueueFirst(address, cmd, request, queue, written) ==
    LET enc == EncodeBody(request) IN
    IF ~enc.ok
    THEN [sent |-> FALSE, error |-> ErrInvalidArguments("Error encoding message"),
          queue |-> Append(queue, cmd), wire |-> written]
    ELSE [sent |-> TRUE, error |-> NoResult,
          queue |-> Append(queue, cmd),
          wire |-> Append(written, [pla |-> address[1], ela |-> address[2],
                                    cmd |-> cmd, body |-> enc.bytes])]

send_request_head(address, cmd, request, queue, written) ==
    LET enc == EncodeBody(request) IN
    IF ~enc.ok
    THEN [sent |-> FALSE, error |-> ErrInvalidArguments("Error encoding message"),
          queue |-> queue, wire |-> written]
    ELSE [sent |-> TRUE, error |-> NoResult,
          queue |-> Append(queue, cmd),
          wire |-> Append(written, [pla |-> address[1], ela |-> address[2],
                                    cmd |-> cmd, body |-> enc.bytes])]

\* an operation's first step: its local checks, then send_request
Perform(address, step, queue, written) ==
    IF ~step.send
    THEN [sent |-> FALSE, error |-> step.error, queue |-> queue, wire |-> written]
    ELSE send_request_head(address, step.cmd, step.request, queue, written)

----------------------------------------------------------------------------
\* The operations a caller may start, and the devices it may talk to.

\* variables a DPac file may hold
MaxVars == 2
\* last page the device has
MaxDevPage == 1

Rep(ch, n) == [i \in 1..n |-> ch]

Addresses == {<<1, 2>>}
LoadNumbers == {241}
Offsets == {0, 305419896}

Values ==
    { Variant("Huge", -2, <<>>), Variant("Index", 5, <<>>),
      Variant("Integer", -3, <<>>), Variant("Logic", 1, <<>>),
      Variant("Real", 1065353216, <<>>),
      Variant("String", 0, Rep(65, 1)),
      Variant("String", 0, Rep(233, MaxStringBytes)),
      Variant("String", 0, Rep(65, MaxStringBytes + 1)) }

DPacVariables ==
    { [kind |-> "Integer", offset |-> 60], [kind |-> "Huge", offset |-> 0],
      [kind |-> "Huge", offset |-> 58], [kind |-> "Real", offset |-> 118],
      [kind |-> "Index", offset |-> 119], [kind |-> "Logic", offset |-> 120],
      [kind |-> "String", offset |-> 3], [kind |-> "Integer", offset |-> 59] }

\* the variables of a file in the order File::iter yields them
VariableLists ==
    UNION { {s \in [1..n -> DPacVariables] : \A i, j \in 1..n : i # j => s[i] # s[j]}
            : n \in 1..MaxVars }

Call(op, address, file_kind, load_number, variable_kind, offset, value, variables, only_page) ==
    [op |-> op, address |-> address, file_kind |-> file_kind,
     load_number |-> load_number, variable_kind |-> variable_kind,
     offset |-> offset, value |-> value, variables |-> variables,
     only_page |-> only_page]

DPacOps == {"read_dpac", "read_dpac_page"}

NoCall == Call("", <<0, 0>>, "", 0, "", 0, NoValue, <<>>, -1)

SimpleCalls ==
    { Call("read_variable_raw", a, fk, ln, vk, o, NoValue, <<>>, -1) :
        a \in Addresses, fk \in FileKinds, ln \in LoadNumbers,
        vk \in VariableKinds, o \in Offsets }
    \cup
    { Call("write_variable_raw", a, fk, ln, vk, o, v, <<>>, -1) :
        a \in Addresses, fk \in FileKinds, ln \in LoadNumbers,
        vk \in VariableKinds, o \in Offsets, v \in Values }
    \cup
    { Call("read_partition_attribute", a, "", 1, vk, 258, NoValue, <<>>, -1) :
        a \in Addresses, vk \in VariableKinds }
    \cup
    { Call("read_controller_id", a, "", 0, "", 0, NoValue, <<>>, -1) :
        a \in Addresses }

DPacCalls ==
    { Call("read_dpac", a, fk, ln, "", 0, NoValue, vs, -1) :
        a \in Addresses, fk \in {"VPac", "BPac"}, ln \in LoadNumbers,
        vs \in VariableLists }
    \cup
    { Call("read_dpac_page", a, fk, ln, "", 0, NoValue, vs, p) :
        a \in Addresses, fk \in {"VPac", "BPac"}, ln \in LoadNumbers,
        vs \in VariableLists, p \in 0..1 }
    \cup
    { Call(op, a, fk, ln, "", 0, NoValue, <<[kind |-> "Huge", offset |-> 0]>>, p) :
        op \in {"read_dpac", "read_dpac_page"}, a \in Addresses,
        fk \in {"Task", "Text"}, ln \in LoadNumbers, p \in {0} }

\* the device: it has pages 0..pages, answers AddressOutsideRange beyond
\* them, and fails on page `fail` (-1: never) with IllegalCommand, with a
\* page whose CRC is wrong ("corrupt"), with a 0x02 inside the frame
\* ("garbled"), or by resetting the connection; last is what it sent most
\* recently
IllegalCommand == 38

NoAnswer == [kind |-> "none", code |-> 0, body |-> <<>>]

Devices == { [pages |-> p, fail |-> f, last |-> NoAnswer] :
                p \in 0..MaxDevPage, f \in {-1, 1} }

\* byte j (from 0) of the device's page stream; page 1 begins AA 11 22
StreamByte(j) ==
    CASE j = 120 -> 170
      [] j = 121 -> 17
      [] j = 122 -> 34
      [] OTHER -> (j * 37 + 11) % 256

DevicePage(p) == [i \in 1..PageBytes |-> StreamByte(PageBytes * p + i - 1)]

\* bodies of a successful answer to a request other than a page read
SuccessBodies ==
    { <<>>, <<1>>, <<2>>, <<5>>, <<17, 34>>, <<254, 255, 255, 255>>, <<65, 130, 3>> }

\* what the device may answer to the request frame f
DeviceAnswers(dev, f) ==
    IF f.cmd = "ReadDPacPage"
    THEN LET p == f.body[2] IN
         IF p = dev.fail
         THEN {[kind |-> "exception", code |-> IllegalCommand, body |-> <<>>],
               [kind |-> "corrupt", code |-> 0, body |-> DevicePage(p)],
               [kind |-> "garbled", code |-> 0, body |-> <<>>]}
         ELSE IF p > dev.pages
         THEN {[kind |-> "exception", code |-> AddressOutsideRange, body |-> <<>>]}
         ELSE {[kind |-> "success", code |-> 0, body |-> DevicePage(p)]}
    ELSE {[kind |-> "exception", code |-> c, body |-> <<>>] : c \in Byte}
         \cup {[kind |-> "success", code |-> 0, body |-> b] : b \in SuccessBodies}

\* the payload between the frame markers: an exception is its one code byte,
\* a success the body and its CRC; both are escaped
AnswerPayload(answer) ==
    CASE answer.kind = "exception" -> escape(<<answer.code>>)
      [] answer.kind = "corrupt" ->
            LET good == append_crc(answer.body) IN
            escape([good EXCEPT ![Len(good)] = (@ + 1) % 256])
      [] answer.kind = "garbled" -> <<BEGIN_REQUEST>>
      [] OTHER -> escape(append_crc(answer.body))

----------------------------------------------------------------------------
\* One caller running one typed operation (SpecClient).

CliInit ==
    /\ call = NoCall
    /\ cpc = "idle"
    /\ cqueue = <<>>
    /\ cwire = <<>>
    /\ cstream = <<>>
    /\ cslot = NoResult
    /\ cresult = OpNone
    /\ dpac = DPacStart
    /\ canswered = 0
    /\ device = [pages |-> 0, fail |-> -1, last |-> NoAnswer]
    /\ pla = OpNone

\* the operation's code up to its first send_request
FirstStep(c) ==
    CASE c.op = "read_variable_raw" ->
            read_variable_raw(c.file_kind, c.load_number, c.variable_kind, c.offset)
      [] c.op = "write_variable_raw" ->
            write_variable_raw(c.file_kind, c.load_number, c.variable_kind,
                               c.offset, c.value)
      [] c.op = "read_partition_attribute" ->
            read_partition_attribute(c.load_number, c.variable_kind, c.offset)
      [] c.op = "read_controller_id" -> read_controller_id

\* the operation's code after its send_request returned r
Finish(c, r) ==
    IF r.st = "err" THEN OpErr(r)
    ELSE CASE c.op = "read_variable_raw" -> DecodeVariant(c.variable_kind, r.data)
           [] c.op = "write_variable_raw" -> OpOk(Unit, {})
           [] c.op = "read_partition_attribute" -> DecodeVariant(c.variable_kind, r.data)
           [] c.op = "read_controller_id" ->
                 OpOk(Variant("String", 0, read_string(r.data)), {})

\* read_variable_raw, write_variable_raw, read_partition_attribute,
\* read_controller_id: from the call to the await inside send_request
StartSimple(c) ==
    /\ cpc = "idle"
    /\ c \in SimpleCalls
    /\ call' = c
    /\ \E p \in {Perform(c.address, FirstStep(c), cqueue, cwire)} :
       /\ cqueue' = p.queue
       /\ cwire' = p.wire
       /\ cpc' = IF p.sent THEN "awaiting" ELSE "done"
       /\ cresult' = IF p.sent THEN cresult ELSE OpErr(p.error)
    /\ UNCHANGED <<cstream, cslot, dpac, canswered, device>>
    /\ UNCHANGED muxVars
    /\ UNCHANGED pureVars
    /\ UNCHANGED pla

\* read_dpac_internal continues from the loop state d: it returns the map,
\* or awaits the next page
DPacContinue(c, d) ==
    \E run \in {DPacRun(c, d)} :
    IF run.status = "finish"
    THEN /\ cresult' = OpOk(NoValue, run.d.result)
         /\ cpc' = "done"
         /\ dpac' = run.d
         /\ UNCHANGED <<cqueue, cwire>>
    ELSE \E p \in {Perform(c.address,
                            read_dpac_page_raw(c.file_kind, c.load_number, run.page),
                            cqueue, cwire)} :
         /\ cqueue' = p.queue
         /\ cwire' = p.wire
         /\ cpc' = IF p.sent THEN "awaiting" ELSE "done"
         /\ cresult' = IF p.sent THEN cresult ELSE OpErr(p.error)
         /\ dpac' = run.d

\* read_dpac, read_dpac_page: lines 111-124, then the loop
StartDPac(c, dev) ==
    /\ cpc = "idle"
    /\ c \in DPacCalls
    /\ dev \in Devices
    /\ call' = c
    /\ device' = dev
    /\ IF c.file_kind \notin {"BPac", "VPac"}
       THEN /\ cresult' = OpErr(ErrInvalidArguments("Can only read pages from DPac's"))
            /\ cpc' = "done"
            /\ UNCHANGED <<cqueue, cwire, dpac>>
       ELSE DPacContinue(c, DPacStart)
    /\ UNCHANGED <<cstream, cslot, canswered>>
    /\ UNCHANGED muxVars
    /\ UNCHANGED pureVars
    /\ UNCHANGED pla

\* the device reads the next request and sends its answer as one frame
DeviceAnswer ==
    /\ canswered < Len(cwire)
    /\ \E answer \in DeviceAnswers(device, cwire[canswered + 1]) :
          /\ cstream' = cstream \o <<BEGIN_RESPONSE>> \o AnswerPayload(answer)
                            \o <<END_MESSAGE>>
          /\ device' = [device EXCEPT !.last = answer]
    /\ canswered' = canswered + 1
    /\ UNCHANGED <<call, cpc, cqueue, cwire, cslot, cresult, dpac>>
    /\ UNCHANGED muxVars
    /\ UNCHANGED pureVars
    /\ UNCHANGED pla

\* the connection is reset while the page `fail` is awaited: reader.read
\* fails (connection.rs 44) and receive_response, lines 79-89, hands the IO
\* error to the queued sender
ConnectionReset ==
    /\ cpc = "awaiting"
    /\ cqueue # <<>>
    /\ cstream = <<>>
    /\ canswered < Len(cwire)
    /\ cwire[canswered + 1].cmd = "ReadDPacPage"
    /\ cwire[canswered + 1].body[2] = device.fail
    /\ canswered' = canswered + 1
    /\ device' = [device EXCEPT !.last = [kind |-> "reset", code |-> 0, body |-> <<>>]]
    /\ cqueue' = <<>>
    /\ cslot' = ReadErrorValue("IO")
    /\ UNCHANGED <<call, cpc, cwire, cstream, cresult, dpac>>
    /\ UNCHANGED muxVars
    /\ UNCHANGED pureVars
    /\ UNCHANGED pla

\* receive_response, lines 76-96, on the bytes that have arrived
ReceiveResponse ==
    /\ cstream # <<>>
    /\ \E r \in {read_response(cstream)} :
       /\ r.kind # "pending"
       /\ IF r.kind = "frame"
          THEN /\ cstream' = r.rest
               /\ IF cqueue = <<>>
                  THEN UNCHANGED <<cqueue, cslot>>
                  ELSE /\ cqueue' = Tail(cqueue)
                       /\ cslot' = Ok(r.msg)
          ELSE /\ cstream' = <<>>
               /\ cqueue' = <<>>
               /\ cslot' = IF cqueue = <<>> THEN cslot
                           ELSE ReadErrorValue("InvalidData")
    /\ UNCHANGED <<call, cpc, cwire, cresult, dpac, canswered, device>>
    /\ UNCHANGED muxVars
    /\ UNCHANGED pureVars
    /\ UNCHANGED pla

\* send_request lines 752-764 and the rest of the operation
ReturnSimple ==
    /\ cpc = "awaiting"
    /\ cslot.st # "none"
    /\ call.op \in {"read_variable_raw", "write_variable_raw",
                   "read_partition_attribute", "read_controller_id"}
    /\ cresult' = Finish(call, SendRequestTail(cslot))
    /\ cpc' = "done"
    /\ cslot' = NoResult
    /\ UNCHANGED <<call, cqueue, cwire, cstream, dpac, canswered, device>>
    /\ UNCHANGED muxVars
    /\ UNCHANGED pureVars
    /\ UNCHANGED pla

\* send_request lines 752-764, read_dpac_page_raw 229-230, and
\* read_dpac_internal from line 170 to its next await or its return
ReturnDPac ==
    /\ cpc = "awaiting"
    /\ cslot.st # "none"
    /\ call.op \in DPacOps
    /\ cslot' = NoResult
    /\ \E r \in {SendRequestTail(cslot)} :
       \E o \in {DPacOnPage(call, dpac, r)} :
          IF o.status = "error"
          THEN /\ cresult' = OpErr(r)
               /\ cpc' = "done"
               /\ UNCHANGED <<cqueue, cwire, dpac>>
          ELSE DPacContinue(call, o.d)
    /\ UNCHANGED <<call, cstream, canswered, device>>
    /\ UNCHANGED muxVars
    /\ UNCHANGED pureVars
    /\ UNCHANGED pla

\* the address read_exoline_address asks, and the file it reads
QSystemAddress == <<255, 30>>
QSystemLoadNumber == 241

AddressCall == Call("read_exoline_address", QSystemAddress, "VPac",
                    QSystemLoadNumber, "Index", 0, NoValue, <<>>, -1)

\* the pair read_exoline_address returns
AddressPair(first, second) == Variant("Address", 0, <<first.num, second.num>>)

\* the first read's error handed on although the second read is still made
AddressGoesOnAlways(r) == TRUE

\* the `?` of line 104: the operation goes on only if the first read succeeded
AddressGoesOn(r) == r.st = "ok"

\* read_exoline_address, line 104 up to the await of its send_request
StartAddress ==
    /\ cpc = "idle"
    /\ call' = AddressCall
    /\ \E p \in {Perform(QSystemAddress,
                          read_variable_raw("VPac", QSystemLoadNumber, "Index", 0),
                          cqueue, cwire)} :
       /\ cqueue' = p.queue
       /\ cwire' = p.wire
       /\ cpc' = IF p.sent THEN "awaiting" ELSE "done"
       /\ cresult' = IF p.sent THEN cresult ELSE OpErr(p.error)
    /\ UNCHANGED <<cstream, cslot, dpac, canswered, device, pla>>
    /\ UNCHANGED muxVars
    /\ UNCHANGED pureVars

\* read_exoline_address when a read returns: after the first, line 105 up to
\* its await; after the second, lines 106-107
ReturnAddress ==
    /\ cpc = "awaiting"
    /\ cslot.st # "none"
    /\ call.op = "read_exoline_address"
    /\ cslot' = NoResult
    /\ \E r \in {Finish([call EXCEPT !.op = "read_variable_raw"],
                         SendRequestTail(cslot))} :
       IF pla.st = "none"
       THEN /\ pla' = r
            /\ IF AddressGoesOn(r)
               THEN \E p \in {Perform(QSystemAddress,
                                      read_variable_raw("VPac", QSystemLoadNumber,
                                                        "Index", 1),
                                      cqueue, cwire)} :
                       /\ cqueue' = p.queue
                       /\ cwire' = p.wire
                       /\ cpc' = IF p.sent THEN "awaiting" ELSE "done"
                       /\ cresult' = IF p.sent THEN cresult ELSE OpErr(p.error)
               ELSE /\ cresult' = r
                    /\ cpc' = "done"
                    /\ UNCHANGED <<cqueue, cwire>>
       ELSE /\ cresult' = IF r.st = "ok"
                          THEN OpOk(AddressPair(pla.value, r.value), {})
                          ELSE r
            /\ cpc' = "done"
            /\ UNCHANGED <<cqueue, cwire, pla>>
    /\ UNCHANGED <<call, cstream, dpac, canswered, device>>
    /\ UNCHANGED muxVars
    /\ UNCHANGED pureVars

\* a device that has every page 0..255, and read_dpac on a BPac whose last
\* variable lies behind them
DeepDevice == [pages |-> LastPage, fail |-> -1, last |-> NoAnswer]

DeepCall ==
    Call("read_dpac", <<1, 2>>, "BPac", 241, "", 0, NoValue,
         <<[kind |-> "Index", offset |-> 0],
           [kind |-> "Logic", offset |-> PageBytes * (LastPage + 1)]>>, -1)

\* what read_dpac_page_raw returns for page p of the device dev, `failure`
\* being what it returns for the page the device fails on
PageResult(dev, p, failure) ==
    IF p = dev.fail THEN failure
    ELSE IF p > dev.pages THEN ErrException(AddressOutsideRange)
    ELSE Ok(DevicePage(p))

\* read_dpac_internal as a whole, from the loop state d with the pages
\* requested so far: what it returns, and the pages it has requested
RECURSIVE ReadDPacFrom(_, _, _, _, _)
ReadDPacFrom(c, dev, failure, d, pages) ==
    LET run == DPacRun(c, d) IN
    IF run.status = "finish"
    THEN [result |-> OpOk(NoValue, run.d.result), pages |-> pages]
    ELSE LET r == PageResult(dev, run.page, failure)
             o == DPacOnPage(c, run.d, r)
         IN IF o.status = "error"
            THEN [result |-> OpErr(r), pages |-> Append(pages, run.page)]
            ELSE ReadDPacFrom(c, dev, failure, o.d, Append(pages, run.page))

\* pages of the deep read taken in one step
DeepSkip == 254

\* read_dpac_internal of DeepCall from the loop state and the requests of
\* `at`: it sends its next request and the device answers it with the page
\* (each value is bound once it is computed)
DeepPage(at) ==
    CHOOSE after \in
        UNION { UNION { { [d |-> DPacOnPage(DeepCall, run.d,
                                            SendRequestTail(Ok(payload))).d,
                           wire |-> Perform(DeepCall.address,
                                            read_dpac_page_raw(DeepCall.file_kind,
                                                               DeepCall.load_number,
                                                               run.page),
                                            <<>>, a.wire).wire]
                          : payload \in {AnswerPayload([kind |-> "success", code |-> 0,
                                                        body |-> DevicePage(run.page)])} }
                        : run \in {DPacRun(DeepCall, a.d)} }
                : a \in {at} } : TRUE

\* n requests answered, starting from `at` (by halves)
RECURSIVE DeepPages(_, _)
DeepPages(at, n) ==
    IF n = 0 THEN at
    ELSE IF n = 1 THEN DeepPage(at)
    ELSE CHOOSE after \in { DeepPages(half, n - n \div 2)
                              : half \in {DeepPages(at, n \div 2)} } : TRUE

DeepAfter(n) == DeepPages([d |-> DPacStart, wire |-> <<>>], n)

\* read_dpac of DeepCall up to the await of its request number DeepSkip + 1
StartDeep ==
    /\ cpc = "idle"
    /\ call' = DeepCall
    /\ device' = DeepDevice
    /\ \E at \in {DeepAfter(DeepSkip)} :
       \E run \in {DPacRun(DeepCall, at.d)} :
       \E p \in {Perform(DeepCall.address,
                          read_dpac_page_raw(DeepCall.file_kind, DeepCall.load_number,
                                             run.page),
                          <<>>, at.wire)} :
          /\ cqueue' = p.queue
          /\ cwire' = p.wire
          /\ cpc' = "awaiting"
          /\ dpac' = run.d
          /\ canswered' = DeepSkip
    /\ UNCHANGED <<cstream, cslot, cresult>>
    /\ UNCHANGED muxVars
    /\ UNCHANGED pureVars
    /\ UNCHANGED pla

NextClient ==
    \/ cpc = "idle" /\ \E c \in SimpleCalls : StartSimple(c)
    \/ StartDeep
    \/ cpc = "idle" /\ \E c \in DPacCalls, dev \in Devices : StartDPac(c, dev)
    \/ DeviceAnswer
    \/ ConnectionReset
    \/ ReceiveResponse
    \/ ReturnSimple
    \/ ReturnDPac
    \/ StartAddress
    \/ ReturnAddress

----------------------------------------------------------------------------
\* The byte codec on its own (SpecCodec): escape, unescape, append_crc and
\* verify_and_remove_crc applied to one input.

\* longest input
MaxLen == 3

\* the frame markers, ESCAPE_VALUE, the complements 0xE4 and 0xFE, and two
\* plain bytes
CodecBytes == {0, 1, 2, 3, 27, 65, 228, 254}

CodecInputs == UNION { [1..n -> CodecBytes] : n \in 0..MaxLen }

Codec(phase, s, data, changed, some, body) ==
    [phase |-> phase, s |-> s, data |-> data, changed |-> changed,
     some |-> some, body |-> body]

CodecNone == Codec("none", <<>>, <<>>, FALSE, FALSE, <<>>)

CodecInit == codec \in { Codec("input", s, s, FALSE, FALSE, <<>>) : s \in CodecInputs }

\* escape(&s)
CodecEscape ==
    /\ codec.phase = "input"
    /\ codec' = [codec EXCEPT !.phase = "escaped", !.data = escape(codec.s)]
    /\ UNCHANGED <<muxVars, cliVars, layoutVars>>

\* unescape of what escape returned
CodecUnescape ==
    /\ codec.phase = "escaped"
    /\ codec' = [codec EXCEPT !.phase = "unescaped", !.data = unescape(codec.data)]
    /\ UNCHANGED <<muxVars, cliVars, layoutVars>>

\* append_crc(&mut s)
CodecAppendCrc ==
    /\ codec.phase = "input"
    /\ codec' = [codec EXCEPT !.phase = "crc", !.data = append_crc(codec.s)]
    /\ UNCHANGED <<muxVars, cliVars, layoutVars>>

\* one byte of the sequence with its CRC arrives as another value
CodecCorrupt(i, b) ==
    /\ codec.phase = "crc"
    /\ i \in 1..Len(codec.data)
    /\ b # codec.data[i]
    /\ codec' = [codec EXCEPT !.phase = "corrupt", !.changed = TRUE,
                              !.data = [codec.data EXCEPT ![i] = b]]
    /\ UNCHANGED <<muxVars, cliVars, layoutVars>>

\* verify_and_remove_crc(&data)
CodecVerify ==
    /\ codec.phase \in {"crc", "corrupt"}
    /\ \E v \in {verify_and_remove_crc(codec.data)} :
          codec' = [codec EXCEPT !.phase = "verified", !.some = v.some,
                                 !.body = v.body]
    /\ UNCHANGED <<muxVars, cliVars, layoutVars>>

NextCodec ==
    \/ CodecEscape
    \/ CodecUnescape
    \/ CodecAppendCrc
    \/ \E i \in 1..(MaxLen + 1), b \in CodecBytes : CodecCorrupt(i, b)
    \/ CodecVerify

----------------------------------------------------------------------------
\* controller/internal/file_vpac.rs: the variables section of a VPac.

\* number of declarations in the variables section
MaxDecls == 3

\* the array length a declaration may carry: Name(18) declares Name(0)..Name(18)
ArrayLengths == {18}

\* the values of the header key pages
PagesValues == {1, 3}

\* the name the line after decls lines declares: Foo, Bar, Foo again, ...
DeclName(decls) == IF decls % 2 = 0 THEN "Foo" ELSE "Bar"

\* array_length: None
NoLength == -1

\* VariableKindInternal::offset_size_of_vpac_variable
offset_size_of_vpac_variable(kind) ==
    CASE kind = "Huge" -> 3
      [] kind = "Index" -> 1
      [] kind = "Integer" -> 2
      [] kind = "Logic" -> 1
      [] kind = "Real" -> 3
      [] kind = "String" -> 3

\* the name strings add_vpac_variable formats: Name, Name(i), Pages(p).Name,
\* Pages(p).Name(i); elem = NoLength for a scalar, page = 0 for the base name
VarName(base, elem, page) == [base |-> base, elem |-> elem, page |-> page]

VarEntry(name, kind, offset) == [name |-> name, kind |-> kind, offset |-> offset]

\* VariableMap::insert of every entry of one declaration: a HashMap keyed by
\* the name, so an entry replaces the one already stored under its name
VariableMapInsert(variables, entries) ==
    { e \in variables : \A n \in entries : n.name # e.name } \cup entries

AlignScalarNever(offset, size, align_with_segments, kind) == offset

\* the segment test preceding every placement
AlignScalar(offset, size, align_with_segments, kind) ==
    IF align_with_segments /\ kind # "String"
    THEN IF offset \div 60 # (offset + size - 1) \div 60
         THEN (offset \div 60 + 1) * 60
         ELSE offset
    ELSE offset

\* an array that does not fit moved to the next multiple of its size
AlignArrayToSize(offset, size, array_length, align_with_segments) ==
    IF align_with_segments /\ (offset % 60) + size + size * array_length > 60
    THEN offset + ((size - ((offset % 60) % size)) % size)
    ELSE offset

\* an array placed where the scalar rule leaves it
AlignArrayNever(offset, size, array_length, align_with_segments) == offset

\* the alignment of an array that does not fit into the rest of the segment
AlignArray(offset, size, array_length, align_with_segments) ==
    IF align_with_segments /\ (offset % 60) + size + size * array_length > 60
    THEN offset + ((size - ((offset % 60) % size)) % 3)
    ELSE offset

PagesOfAliasesInclusive(pages) == IF pages > 1 THEN 1..pages ELSE {}

\* if pages > 1 { for page in 1..pages }
PagesOfAliases(pages) == IF pages > 1 THEN 1..(pages - 1) ELSE {}

\* the entries one placement inserts: the name itself (page 0) and, when
\* pages > 1, format!("Pages({}).{}", page, name) at offset + page * 60
Placement(base, elem, kind, offset, pages) ==
    { VarEntry(VarName(base, elem, page), kind, offset + page * 60) :
         page \in {0} \cup PagesOfAliases(pages) }

\* add_vpac_variable(variables, offset, pages, align_with_segments, kind, name, array_length)
add_vpac_variable(variables, offset, pages, align_with_segments, kind, name, array_length) ==
    LET size == offset_size_of_vpac_variable(kind)
        aligned == AlignScalar(offset, size, align_with_segments, kind)
        first == AlignArray(aligned, size, array_length, align_with_segments)
    IN  IF array_length = NoLength
        THEN [variables |->
                VariableMapInsert(variables,
                                  Placement(name, NoLength, kind, aligned, pages)),
              offset |-> aligned + size]
        ELSE \* for i in 0..=array_length: Name(i) at the running offset
             [variables |->
                VariableMapInsert(variables,
                    UNION { Placement(name, i, kind, first + size * i, pages) :
                               i \in 0..array_length }),
              offset |-> first + size * (array_length + 1)]

VPac(phase, pages, align_with_segments, variables, offset, decls) ==
    [phase |-> phase, pages |-> pages, align_with_segments |-> align_with_segments,
     variables |-> variables, offset |-> offset, decls |-> decls]

VPacNone == VPac("none", 1, TRUE, {}, 0, 0)

\* parse_vpac_file has read the header: pages and alignwithsegments are known,
\* the VariableMap is empty and the offset is 0
VPacInit ==
    vpac \in { VPac("variables", pages, align, {}, 0, 0) :
                  pages \in PagesValues, align \in BOOLEAN }

\* one line of the variables section declaring a scalar
DeclareScalar(name, kind) ==
    /\ vpac.phase = "variables"
    /\ vpac.decls < MaxDecls
    /\ \E r \in { add_vpac_variable(vpac.variables, vpac.offset, vpac.pages,
                                    vpac.align_with_segments, kind, name, NoLength) } :
          vpac' = [vpac EXCEPT !.variables = r.variables, !.offset = r.offset,
                               !.decls = @ + 1]
    /\ UNCHANGED <<muxVars, cliVars, exceptVPac>>

\* one line of the variables section declaring an array
DeclareArray(name, kind, array_length) ==
    /\ vpac.phase = "variables"
    /\ vpac.decls < MaxDecls
    /\ \E r \in { add_vpac_variable(vpac.variables, vpac.offset, vpac.pages,
                                    vpac.align_with_segments, kind, name, array_length) } :
          vpac' = [vpac EXCEPT !.variables = r.variables, !.offset = r.offset,
                               !.decls = @ + 1]
    /\ UNCHANGED <<muxVars, cliVars, exceptVPac>>

NextVPac ==
    \/ \E kind \in VariableKinds : DeclareScalar(DeclName(vpac.decls), kind)
    \/ \E kind \in VariableKinds, n \in ArrayLengths :
          DeclareArray(DeclName(vpac.decls), kind, n)

----------------------------------------------------------------------------
\* controller: Load.Mdl, load_selective and lookup_variable.
\* A name is the sequence of its characters, so that case folding and the
\* split at the first '.' are computed and not assumed.

\* number of Load.Mdl items of the controller directory
MaxItems == 3

UpperCase == <<"A", "B", "N", "P", "Q", "T", "X", "Y", "Z">>
LowerCase == <<"a", "b", "n", "p", "q", "t", "x", "y", "z">>

to_lowercase(ch) ==
    IF \E i \in 1..Len(UpperCase) : UpperCase[i] = ch
    THEN LowerCase[CHOOSE i \in 1..Len(UpperCase) : UpperCase[i] = ch]
    ELSE ch

to_uppercase(ch) ==
    IF \E i \in 1..Len(LowerCase) : LowerCase[i] = ch
    THEN UpperCase[CHOOSE i \in 1..Len(LowerCase) : LowerCase[i] = ch]
    ELSE ch

FoldExact(name) == name

\* the case folding under which UniCase<String> compares and hashes
Fold(name) == [i \in 1..Len(name) |-> to_lowercase(name[i])]

\* UniCase: PartialEq
UniEq(a, b) == Fold(a) = Fold(b)

\* VariableMap::hash_key: the DefaultHasher digest of the UniCase key, written
\* as the folded name it is the digest of
hash_key(name) == [hash |-> Fold(name)]

NoNumber == -1
NoFile == [kind |-> "none"]
NoComment == ""

LoadModes == {"HashedNames", "WithNames", "WithNamesAndComments"}

Decl(name, kind, offset, comment) ==
    [name |-> name, kind |-> kind, offset |-> offset, comment |-> comment]

\* 1 << 24: a StandardVariable keeps the offset in its low 24 bits
OffsetLimit == 16777216

KindCodes == <<"Huge", "Index", "Integer", "Logic", "Real", "String">>

\* StandardVariable::new: (offset & 0x00FF_FFFF) | (kind << 24)
StandardVariable_new(kind, offset) ==
    (offset % OffsetLimit)
        + ((CHOOSE i \in 1..Len(KindCodes) : KindCodes[i] = kind) - 1) * OffsetLimit

\* StandardVariable::kind: self.0 >> 24
StandardVariable_kind(v) == KindCodes[(v \div OffsetLimit) + 1]

\* StandardVariable::offset: self.0 & 0x00FF_FFFF
StandardVariable_offset(v) == v % OffsetLimit

\* VariableMap::new(mode) filled by VariableMap::insert: Verbose keeps the
\* UniCase name (and the comment in WithNamesAndComments), Standard the
\* hash_key and the packed StandardVariable
VariableMapOf(mode, decls) ==
    IF mode = "HashedNames"
    THEN { [key |-> hash_key(d.name), name |-> <<>>,
            kind |-> StandardVariable_kind(StandardVariable_new(d.kind, d.offset)),
            offset |-> StandardVariable_offset(StandardVariable_new(d.kind, d.offset)),
            comment |-> NoComment] : d \in decls }
    ELSE { [key |-> [hash |-> <<>>], name |-> d.name, kind |-> d.kind,
            offset |-> d.offset,
            comment |-> IF mode = "WithNamesAndComments" THEN d.comment
                        ELSE NoComment] : d \in decls }

\* FileInternal as the parse_*_file functions return it
FileInternal(kind, load_number, decls) ==
    [kind |-> kind, load_number |-> load_number, decls |-> decls]

\* LoadMdlItem of a section of Load.Mdl, with the file it resolves to
LoadMdlItem(section, filename, global, load_number, file) ==
    [section |-> section, filename |-> filename, global |-> global,
     load_number |-> load_number, file |-> file]

\* the items a Load.Mdl may list
Catalogue ==
    { LoadMdlItem("dpac", <<"p", "a">>, TRUE, NoNumber,
          FileInternal("VPac", 5,
              { Decl(<<"x">>, "Huge", 0, "one"), Decl(<<"y">>, "Index", 3, ""),
                Decl(<<"n">>, "Logic", OffsetLimit + 4, "") })),
      LoadMdlItem("dpac", <<"P", "b">>, TRUE, 5,
          FileInternal("VPac", 9,
              { Decl(<<"Y">>, "Huge", 0, "other"), Decl(<<"b">>, "Integer", 3, "") })),
      LoadMdlItem("dpac", <<"P", "A">>, FALSE, 6,
          FileInternal("BPac", NoNumber, { Decl(<<"x">>, "Logic", 2, "") })),
      LoadMdlItem("dpac", <<"p", "n">>, TRUE, NoNumber,
          FileInternal("VPac", NoNumber, { Decl(<<"z">>, "Real", 0, "") })),
      LoadMdlItem("dpac", <<"p", "q">>, TRUE, 4, NoFile),
      LoadMdlItem("task", <<"t", "a">>, TRUE, 3,
          FileInternal("Task", 255,
              { Decl(<<"x">>, "Huge", 0, ""), Decl(<<"t">>, "Index", 3, "") })),
      LoadMdlItem("text", <<"t", "x">>, FALSE, 9,
          FileInternal("Text", NoNumber, { Decl(<<"t">>, "String", 1, "") })) }

\* an entry of a FileSetInternal: the key and (load_number, file); item is the
\* Load.Mdl item the entry was made from
FileEntry(key, load_number, file, item) ==
    [key |-> key, load_number |-> load_number, file |-> file, item |-> item]

\* HashMap::insert under a UniCase key: an equal key keeps its stored
\* spelling and takes the new value
FileSetInsert(file_set, name, load_number, file, item) ==
    IF \E e \in file_set : UniEq(e.key, name)
    THEN { IF UniEq(e.key, name) THEN FileEntry(e.key, load_number, file, item)
           ELSE e : e \in file_set }
    ELSE file_set \cup { FileEntry(name, load_number, file, item) }

LoadNumberOfFileFirst(item) ==
    IF item.section = "text" THEN 127
    ELSE IF item.file.load_number # NoNumber THEN item.file.load_number
         ELSE item.load_number

\* match kind { Text => 127, _ => load_mdl_item.load_number.or(file.load_number) }
LoadNumberOf(item) ==
    IF item.section = "text" THEN 127
    ELSE IF item.load_number # NoNumber THEN item.load_number
         ELSE item.file.load_number

GoesToGlobalsAnyKind(item) == item.global

\* load_mdl_item.global && matches!(kind, LoadFileKind::DPac)
GoesToGlobals(item) == item.global /\ item.section = "dpac"

Ctl(phase, mode, load_mdl, pending, tasks, dpacs, texts, globals, order, op) ==
    [phase |-> phase, mode |-> mode, load_mdl |-> load_mdl, pending |-> pending,
     tasks |-> tasks,
     dpacs |-> dpacs, texts |-> texts, globals |-> globals, order |-> order,
     op |-> op]

OpIdle == [type |-> "none"]

CtlNone == Ctl("none", "HashedNames", {}, {}, {}, {}, {}, {}, <<>>, OpIdle)

\* load_selective has spawned one load per selected item; the four maps are empty
CtlInit ==
    ctl \in { Ctl("joining", mode, items, items, {}, {}, {}, {}, <<>>, OpIdle) :
                 mode \in LoadModes,
                 items \in { s \in SUBSET Catalogue : Cardinality(s) <= MaxItems } }

\* join_next returns an item whose file could not be read or parsed
JoinFailed(item) ==
    /\ ctl.phase = "joining"
    /\ item \in ctl.pending
    /\ item.file = NoFile
    /\ ctl' = [ctl EXCEPT !.pending = @ \ {item}]
    /\ UNCHANGED <<muxVars, cliVars, exceptCtl>>

\* join_next returns a parsed file without any load number: continue
JoinDropped(item) ==
    /\ ctl.phase = "joining"
    /\ item \in ctl.pending
    /\ item.file # NoFile
    /\ LoadNumberOf(item) = NoNumber
    /\ ctl' = [ctl EXCEPT !.pending = @ \ {item}]
    /\ UNCHANGED <<muxVars, cliVars, exceptCtl>>

\* join_next returns a parsed file that is inserted
JoinInserted(item) ==
    /\ ctl.phase = "joining"
    /\ item \in ctl.pending
    /\ item.file # NoFile
    /\ LoadNumberOf(item) # NoNumber
    /\ \E ln \in {LoadNumberOf(item)} :
          ctl' = [ctl EXCEPT
                    !.pending = @ \ {item},
                    !.globals = IF GoesToGlobals(item)
                                THEN FileSetInsert(@, item.filename, ln, item.file, item)
                                ELSE @,
                    !.tasks = IF item.section = "task"
                              THEN FileSetInsert(@, item.filename, ln, item.file, item)
                              ELSE @,
                    !.dpacs = IF item.section = "dpac"
                              THEN FileSetInsert(@, item.filename, ln, item.file, item)
                              ELSE @,
                    !.texts = IF item.section = "text"
                              THEN FileSetInsert(@, item.filename, ln, item.file, item)
                              ELSE @]
    /\ UNCHANGED <<muxVars, cliVars, exceptCtl>>

\* the orders in which a HashMap may iterate over its entries
IterationOrders(file_set) ==
    { o \in [1..Cardinality(file_set) -> file_set] :
         \A i, j \in 1..Cardinality(file_set) : i # j => o[i] # o[j] }

\* Ok(Controller { .. }): the maps are frozen, and so is the order in which
\* globals iterates
Loaded ==
    /\ ctl.phase = "joining"
    /\ ctl.pending = {}
    /\ \E order \in IterationOrders(ctl.globals) :
          ctl' = [ctl EXCEPT !.phase = "loaded", !.order = order]
    /\ UNCHANGED <<muxVars, cliVars, exceptCtl>>

NoVariable == [some |-> FALSE]

Variable(entry, v) ==
    [some |-> TRUE, file_kind |-> entry.file.kind, file_name |-> entry.key,
     load_number |-> entry.load_number, kind |-> v.kind, offset |-> v.offset,
     name |-> v.name, comment |-> v.comment]

\* FileSet::get: the first of file_sets holding the key
FileSet_get(file_sets, filename) ==
    LET holding == { i \in 1..Len(file_sets) :
                        \E e \in file_sets[i] : UniEq(e.key, filename) }
    IN  IF holding = {}
        THEN {}
        ELSE { e \in file_sets[CHOOSE i \in holding : \A j \in holding : i <= j] :
                  UniEq(e.key, filename) }

\* File::get
File_get(mode, entry, variable_name) ==
    LET variables == VariableMapOf(mode, entry.file.decls)
        found == IF mode = "HashedNames"
                 THEN { v \in variables : v.key = hash_key(variable_name) }
                 ELSE { v \in variables : UniEq(v.name, variable_name) }
    IN  IF found = {} THEN NoVariable
        ELSE Variable(entry, CHOOSE v \in found : TRUE)

\* str::split_once('.')
split_once(s) ==
    LET dots == { i \in 1..Len(s) : s[i] = "." }
    IN  IF dots = {}
        THEN [some |-> FALSE, a |-> s, b |-> <<>>]
        ELSE LET i == CHOOSE i \in dots : \A j \in dots : i <= j
             IN  [some |-> TRUE, a |-> SubSeq(s, 1, i - 1),
                  b |-> SubSeq(s, i + 1, Len(s))]

\* for file in self.globals().iter(): the first file holding the name
GlobalsSearch(c, variable_name) ==
    LET hits == { i \in 1..Len(c.order) :
                     File_get(c.mode, c.order[i], variable_name).some }
    IN  IF hits = {} THEN NoVariable
        ELSE File_get(c.mode, c.order[CHOOSE i \in hits : \A j \in hits : i <= j],
                      variable_name)

\* Controller::lookup_variable
lookup_variable(c, variable_name) ==
    LET split == split_once(variable_name)
        files == FileSet_get(<<c.dpacs, c.tasks, c.texts>>, split.a)
        in_file == IF split.some /\ files # {}
                   THEN File_get(c.mode, CHOOSE e \in files : TRUE, split.b)
                   ELSE NoVariable
    IN  IF in_file.some THEN in_file ELSE GlobalsSearch(c, variable_name)

\* impl PartialEq for Variable, with the name compared as well
Variable_eq_WithName(a, b) ==
    /\ a.file_kind = b.file_kind
    /\ a.load_number = b.load_number
    /\ a.kind = b.kind
    /\ a.offset = b.offset
    /\ a.name = b.name

\* impl PartialEq for Variable
Variable_eq(a, b) ==
    /\ a.file_kind = b.file_kind
    /\ a.load_number = b.load_number
    /\ a.kind = b.kind
    /\ a.offset = b.offset

\* impl Hash for Variable: the values written to the hasher, in order
Variable_hash(v) ==
    << CASE v.file_kind = "BPac" -> 0
         [] v.file_kind = "Task" -> 1
         [] v.file_kind = "Text" -> 2
         [] v.file_kind = "VPac" -> 3,
       v.load_number,
       CASE v.kind = "Huge" -> 0
         [] v.kind = "Index" -> 1
         [] v.kind = "Integer" -> 2
         [] v.kind = "Logic" -> 3
         [] v.kind = "Real" -> 4
         [] v.kind = "String" -> 5,
       v.offset >>

\* the names looked up, in lower case
LookupNames ==
    { <<"p", "a", ".", "x">>, <<"p", "a", ".", "y">>, <<"p", "b", ".", "y">>,
      <<"p", "a", ".", "b">>, <<"p", "n", ".", "z">>, <<"p", "a", ".", "n">>,
      <<"t", "a", ".", "t">>,
      <<"t", "x", ".", "t">>, <<"x">>, <<"y">>, <<"b">>, <<"t">>, <<"z">> }

\* every upper/lower-case spelling of a name
Spellings(name) ==
    { [i \in 1..Len(name) |-> IF i \in U THEN to_uppercase(name[i])
                              ELSE to_lowercase(name[i])] :
         U \in SUBSET (1..Len(name)) }

\* the spellings looked up: lower case, upper case, first letter upper case
LookupInputs ==
    UNION { { n, [i \in 1..Len(n) |-> to_uppercase(n[i])],
              [i \in 1..Len(n) |-> IF i = 1 THEN to_uppercase(n[i]) ELSE n[i]] } :
               n \in LookupNames }

\* controller.lookup_variable(name), the one call a behaviour observes
Lookup(name) ==
    /\ ctl.phase = "loaded"
    /\ ctl.op = OpIdle
    /\ ctl' = [ctl EXCEPT !.op = [type |-> "lookup", name |-> name,
                                  result |-> lookup_variable(ctl, name)]]
    /\ UNCHANGED <<muxVars, cliVars, exceptCtl>>

\* a == b and the two hashes, for two variables that lookups returned
Compare(first, second) ==
    /\ ctl.phase = "loaded"
    /\ ctl.op = OpIdle
    /\ \E a \in {lookup_variable(ctl, first)}, b \in {lookup_variable(ctl, second)} :
          /\ a.some
          /\ b.some
          /\ ctl' = [ctl EXCEPT !.op = [type |-> "compare", a |-> a, b |-> b,
                                        eq |-> Variable_eq(a, b),
                                        hash_a |-> Variable_hash(a),
                                        hash_b |-> Variable_hash(b)]]
    /\ UNCHANGED <<muxVars, cliVars, exceptCtl>>

NextController ==
    \/ \E item \in Catalogue : JoinFailed(item)
    \/ \E item \in Catalogue : JoinDropped(item)
    \/ \E item \in Catalogue : JoinInserted(item)
    \/ Loaded
    \/ \E name \in LookupInputs : Lookup(name)
    \/ \E first, second \in LookupNames : Compare(first, second)

----------------------------------------------------------------------------
\* controller_loader.rs: load_file and the loader's cache, for one path.

\* number of load_file calls made for the path
MaxLoads == 3

Loads == 1..MaxLoads

\* what load_file_inner yields when it runs: None, or the file as it is parsed
\* from what the disk holds at that moment
Outcomes == {"None", "FileA", "FileB"}

\* OnceCell::new()
CellUnset == "unset"

Loader(under_slib, entry, cell, permit, lpc, lresult, reads, started) ==
    [under_slib |-> under_slib, entry |-> entry, cell |-> cell, permit |-> permit,
     lpc |-> lpc, lresult |-> lresult, reads |-> reads, started |-> started]

LoaderNone ==
    Loader(FALSE, FALSE, CellUnset, 0, [c \in Loads |-> "idle"],
           [c \in Loads |-> CellUnset], 0, 0)

\* ControllerLoader::new_with_mode: the cache is an empty HashMap; the path
\* lies under <prod_dir>/SLib or it does not
LoaderInit ==
    loader \in { Loader(under, FALSE, CellUnset, 0, [c \in Loads |-> "idle"],
                        [c \in Loads |-> CellUnset], 0, 0) : under \in BOOLEAN }

CellInitializedNever(cell) == FALSE

\* OnceCell::initialized
CellInitialized(cell) == cell # CellUnset

\* load_file lines 278-282: under SLib, lock the cache, take or insert the
\* entry of the path and clone its cell
TakeCell(c) ==
    /\ loader.lpc[c] = "idle"
    /\ loader.under_slib
    /\ loader' = [loader EXCEPT !.entry = TRUE, !.lpc[c] = "at_cell"]
    /\ UNCHANGED <<muxVars, cliVars, exceptLoader>>

\* get_or_init on an initialized cell (at once, or after waiting for the
\* permit of a cell that was set meanwhile): the stored value is returned
CellValue(c) ==
    /\ loader.lpc[c] = "at_cell"
    /\ CellInitialized(loader.cell)
    /\ loader' = [loader EXCEPT !.lpc[c] = "returned", !.lresult[c] = loader.cell]
    /\ UNCHANGED <<muxVars, cliVars, exceptLoader>>

\* get_or_init on an empty cell: the one permit is acquired and
\* load_file_inner starts reading
StartInit(c) ==
    /\ loader.lpc[c] = "at_cell"
    /\ ~CellInitialized(loader.cell)
    /\ loader.permit = 0
    /\ loader' = [loader EXCEPT !.permit = c, !.lpc[c] = "reading",
                                !.started = @ + 1]
    /\ UNCHANGED <<muxVars, cliVars, exceptLoader>>

\* load_file_inner has read and parsed (or failed): the cell is set, the
\* permit is given up for good, and load_file returns line 285
FinishInit(c, outcome) ==
    /\ loader.lpc[c] = "reading"
    /\ loader.permit = c
    /\ loader' = [loader EXCEPT !.cell = outcome, !.permit = 0,
                                !.reads = @ + 1, !.lpc[c] = "returned",
                                !.lresult[c] = outcome]
    /\ UNCHANGED <<muxVars, cliVars, exceptLoader>>

\* load_file line 287: a path outside SLib is read and parsed by every call
LoadUncached(c, outcome) ==
    /\ loader.lpc[c] = "idle"
    /\ ~loader.under_slib
    /\ loader' = [loader EXCEPT !.reads = @ + 1, !.started = @ + 1,
                                !.lpc[c] = "returned", !.lresult[c] = outcome]
    /\ UNCHANGED <<muxVars, cliVars, exceptLoader>>

\* the task running the call is aborted at an await (the JoinSet is dropped):
\* while waiting for the cell, or during the read, whose permit is released
\* with the cell still empty
AbortLoad(c) ==
    /\ loader.lpc[c] \in {"at_cell", "reading"}
    /\ loader' = [loader EXCEPT !.lpc[c] = "aborted",
                                !.permit = IF @ = c THEN 0 ELSE @]
    /\ UNCHANGED <<muxVars, cliVars, exceptLoader>>

NextLoader ==
    \/ \E c \in Loads : TakeCell(c)
    \/ \E c \in Loads : CellValue(c)
    \/ \E c \in Loads : StartInit(c)
    \/ \E c \in Loads, outcome \in Outcomes : FinishInit(c, outcome)
    \/ \E c \in Loads, outcome \in Outcomes : LoadUncached(c, outcome)
    \/ \E c \in Loads : AbortLoad(c)

----------------------------------------------------------------------------
\* receive_response over the bytes of one stream, client_impl.rs 74-98 with
\* Connection::read_response, connection.rs 38-82: the senders already
\* queued, the bytes as they arrive, the end of the stream, a failed read.

\* the senders in the queue when the stream starts
MaxRdSlots == 2

\* a byte that is no marker
PayloadBytes == {65}

\* the payload lengths at which the device ends a frame
FrameLens == {0, 1024, 1025}

RdNoResult == [st |-> "none", len |-> 0, kind |-> ""]

Rd(st, queue, slots, outcome, shut) ==
    [st |-> st, queue |-> queue, slots |-> slots, result |-> outcome,
     shut |-> shut]

RdNone == Rd(ReadStart, <<>>, <<>>, "none", FALSE)

RdInit ==
    \E n \in 0..MaxRdSlots :
        rd = Rd(ReadStart, [i \in 1..n |-> i], [i \in 1..n |-> NoResult],
                "running", FALSE)

\* connection.rs 44: reader.read(..).await? fails, ReadError::IO
ReadFailed(st) == [st EXCEPT !.kind = "io"]

\* connection.rs 46-49: bytes_read == 0, whatever the buffer holds, is
\* Ok(None); the buffer is kept here as it was when the call returned
ReadEnded(st) == [st EXCEPT !.kind = "closed"]

\* one byte arrives and the loop of read_response consumes it
RecvByte(byte) ==
    /\ rd.result = "running"
    /\ rd.st.kind = "reading"
    /\ byte = END_MESSAGE /\ rd.st.some => Len(rd.st.data) \in FrameLens
    /\ rd' = [rd EXCEPT !.st = ReadByte(rd.st, byte)]
    /\ UNCHANGED <<muxVars, cliVars, exceptRd>>

\* the stream ends: the writer is shut down, read_response returns Ok(None)
RecvEof ==
    /\ rd.result = "running"
    /\ rd.st.kind = "reading"
    /\ rd' = [rd EXCEPT !.st = ReadEnded(rd.st), !.shut = TRUE]
    /\ UNCHANGED <<muxVars, cliVars, exceptRd>>

\* the read fails
RecvError ==
    /\ rd.result = "running"
    /\ rd.st.kind = "reading"
    /\ rd' = [rd EXCEPT !.st = ReadFailed(rd.st)]
    /\ UNCHANGED <<muxVars, cliVars, exceptRd>>

\* receive_response 92-96: the frame goes to the oldest sender, and the
\* next read_response starts with no buffer; no sender ends the loop
Dispatch ==
    /\ rd.result = "running"
    /\ rd.st.kind = "frame"
    /\ IF rd.queue = <<>>
       THEN rd' = [rd EXCEPT !.result = "InvalidResponse:unexpected"]
       ELSE rd' = [rd EXCEPT !.queue = Tail(@),
                             !.slots[Head(rd.queue)] = Ok(rd.st.data),
                             !.st = ReadStart]
    /\ UNCHANGED <<muxVars, cliVars, exceptRd>>

\* receive_response 78: Ok(None) ends the loop with Ok(()), the queue is
\* left as it is
LoopClosed ==
    /\ rd.result = "running"
    /\ rd.st.kind = "closed"
    /\ rd' = [rd EXCEPT !.result = "Ok"]
    /\ UNCHANGED <<muxVars, cliVars, exceptRd>>

\* receive_response 79-89: the error goes to every sender and ends the loop
LoopFailed ==
    /\ rd.result = "running"
    /\ rd.st.kind \in {"io", "invalid"}
    /\ LET e == IF rd.st.kind = "io" THEN "IO" ELSE "InvalidData"
           drained == DrainQueue(rd.queue, rd.slots, <<>>, ReadErrorValue(e))
       IN rd' = [rd EXCEPT !.queue = drained.queue, !.slots = drained.slots,
                           !.result = LoopError(e)]
    /\ UNCHANGED <<muxVars, cliVars, exceptRd>>


NextReader ==
    \/ \E byte \in {BEGIN_RESPONSE, BEGIN_REQUEST, END_MESSAGE} \cup PayloadBytes :
          RecvByte(byte)
    \/ RecvEof
    \/ RecvError
    \/ Dispatch
    \/ LoopClosed
    \/ LoopFailed

----------------------------------------------------------------------------
\* An Encoder written and a Decoder reading its bytes, encoding.rs 31-103 and
\* 124-215, in the order of tests::encode_decode: a u8, a u24, an i16.

\* the u32 values written with write_u24
U24Values == {0, 1, 255, 256, 65536, 3430008, 16777215, 16777216,
              305419896, 2147483647}

U8Values == {0, 170}

I16Values == {-2, 31692}

MissingData == [ok |-> FALSE, value |-> 0, pos |-> 0]

\* Decoder::read_bytes_const::<N>: read_exact of n bytes at the cursor
read_bytes_const(bytes, pos, n) ==
    IF Len(bytes) - pos < n THEN MissingData
    ELSE [ok |-> TRUE, value |-> SubSeq(bytes, pos + 1, pos + n), pos |-> pos + n]

\* Decoder::read_u8
read_u8(bytes, pos) ==
    LET r == read_bytes_const(bytes, pos, 1) IN
    IF ~r.ok THEN MissingData ELSE [r EXCEPT !.value = r.value[1]]

\* Decoder::read_i16
read_i16(bytes, pos) ==
    LET r == read_bytes_const(bytes, pos, 2) IN
    IF ~r.ok THEN MissingData ELSE [r EXCEPT !.value = SignedLe(r.value, 1, 2)]

\* read_u24 taking the three bytes most significant first
read_u24_BigEndian(bytes, pos) ==
    LET r == read_bytes_const(bytes, pos, 3) IN
    IF ~r.ok THEN MissingData
    ELSE [r EXCEPT !.value =
            LeValue(<<r.value[3], r.value[2], r.value[1], 0>>, 1, 4)]

\* Decoder::read_u24: u32::from_le_bytes([bytes[0], bytes[1], bytes[2], 0])
read_u24(bytes, pos) ==
    LET r == read_bytes_const(bytes, pos, 3) IN
    IF ~r.ok THEN MissingData
    ELSE [r EXCEPT !.value =
            LeValue(<<r.value[1], r.value[2], r.value[3], 0>>, 1, 4)]

\* the values to write, the Encoder's buffer, the Decoder's cursor and what
\* it has read
Enc(phase, first, value, last, buffer, pos, out) ==
    [phase |-> phase, first |-> first, value |-> value, last |-> last,
     buffer |-> buffer, pos |-> pos, out |-> out]

EncNone == Enc("none", 0, 0, 0, <<>>, 0, <<>>)

\* Encoder::new
EncInit ==
    \E first \in U8Values, value \in U24Values, last \in I16Values :
        buf = Enc("new", first, value, last, <<>>, 0, <<>>)

EncWriteFirst ==
    /\ buf.phase = "new"
    /\ buf' = [buf EXCEPT !.phase = "first",
                          !.buffer = @ \o write_u8(buf.first)]
    /\ UNCHANGED <<muxVars, cliVars, exceptEnc>>

EncWriteU24 ==
    /\ buf.phase = "first"
    /\ buf' = [buf EXCEPT !.phase = "u24",
                          !.buffer = @ \o write_u24(buf.value)]
    /\ UNCHANGED <<muxVars, cliVars, exceptEnc>>

EncWriteLast ==
    /\ buf.phase = "u24"
    /\ buf' = [buf EXCEPT !.phase = "last",
                          !.buffer = @ \o write_i16(buf.last)]
    /\ UNCHANGED <<muxVars, cliVars, exceptEnc>>

\* Encoder::finish, Decoder::new
EncFinish ==
    /\ buf.phase = "last"
    /\ buf' = [buf EXCEPT !.phase = "decoding", !.pos = 0]
    /\ UNCHANGED <<muxVars, cliVars, exceptEnc>>

\* the next read of the Decoder: read_u8, read_u24, read_i16
DecRead ==
    /\ buf.phase = "decoding"
    /\ Len(buf.out) < 3
    /\ LET r == CASE Len(buf.out) = 0 -> read_u8(buf.buffer, buf.pos)
                  [] Len(buf.out) = 1 -> read_u24(buf.buffer, buf.pos)
                  [] OTHER -> read_i16(buf.buffer, buf.pos)
       IN buf' = [buf EXCEPT !.out = Append(@, r),
                             !.pos = IF r.ok THEN r.pos ELSE @]
    /\ UNCHANGED <<muxVars, cliVars, exceptEnc>>

\* a read past the last value: the buffer is used up
DecReadPastEnd ==
    /\ buf.phase = "decoding"
    /\ Len(buf.out) = 3
    /\ buf' = [buf EXCEPT !.phase = "done",
                          !.out = Append(@, read_u24(buf.buffer, buf.pos))]
    /\ UNCHANGED <<muxVars, cliVars, exceptEnc>>

NextU24 ==
    \/ EncWriteFirst
    \/ EncWriteU24
    \/ EncWriteLast
    \/ EncFinish
    \/ DecRead
    \/ DecReadPastEnd

----------------------------------------------------------------------------
\* The two tokenisers, controller/internal/exo_file.rs and ini_file.rs, over
\* the lines of one file; a line is the sequence of its characters.

\* the lines of an INI file, and the lines of a file with brace sections
MaxLines == 4
MaxExoLines == 6

IniLineChoices ==
    { <<"[", " ", "s", " ", "]">>, <<"[", "t", "]", ";", "c">>,
      <<"a", "=", "1">>, <<" ", "b", " ", ";", "c">>, <<"[", "x">>,
      <<>>, <<" ", ";", "c">> }

ExoLineChoices ==
    { <<"{", " ", "s">>, <<"}">>, <<" ", "}", " ", ";", "c">>,
      <<"a", "=", "1">>, <<" ", "b", " ", ";", "c">>, <<" ", ";", "c">> }

NoneStr == [some |-> FALSE, text |-> <<>>]
SomeStr(text) == [some |-> TRUE, text |-> text]

AsciiWhitespace == {" ", "\t"}

RECURSIVE trim_ascii_start(_)
trim_ascii_start(s) ==
    IF s # <<>> /\ Head(s) \in AsciiWhitespace
    THEN trim_ascii_start(Tail(s)) ELSE s

RECURSIVE trim_ascii_end(_)
trim_ascii_end(s) ==
    IF s # <<>> /\ s[Len(s)] \in AsciiWhitespace
    THEN trim_ascii_end(SubSeq(s, 1, Len(s) - 1)) ELSE s

\* str::trim_ascii
trim_ascii(s) == trim_ascii_end(trim_ascii_start(s))

\* util.rs 3-8
split_once_and_trim_ascii(text, delimiter) ==
    LET at == { i \in 1..Len(text) : text[i] = delimiter } IN
    IF at = {} THEN [a |-> trim_ascii(text), b |-> NoneStr]
    ELSE LET i == CHOOSE i \in at : \A j \in at : i <= j IN
         [a |-> trim_ascii(SubSeq(text, 1, i - 1)),
          b |-> SomeStr(trim_ascii(SubSeq(text, i + 1, Len(text))))]

starts_with(s, ch) == s # <<>> /\ Head(s) = ch
ends_with(s, ch) == s # <<>> /\ s[Len(s)] = ch

\* what an iterator's next() returned (found: Some), and the iterator after
\* the call; line numbers count from 0 as in the code, at is the number of
\* the line that was yielded
Yield(found, name, item, at, line_nr, initial) ==
    [found |-> found, name |-> name, item |-> item, at |-> at,
     line_nr |-> line_nr, initial |-> initial]

NoItem == [line |-> <<>>, key |-> <<>>, value |-> NoneStr, comment |-> NoneStr]

\* ExoFileSections::next, exo_file.rs 32-58
RECURSIVE ExoFileSections_next(_, _)
ExoFileSections_next(lines, line_nr) ==
    IF line_nr >= Len(lines)
    THEN Yield(FALSE, NoneStr, NoItem, -1, line_nr, FALSE)
    ELSE LET line == split_once_and_trim_ascii(lines[line_nr + 1], ";").a IN
         IF line = <<>> THEN ExoFileSections_next(lines, line_nr + 1)
         ELSE IF starts_with(line, "{")
              THEN Yield(TRUE, SomeStr(trim_ascii(Tail(line))), NoItem,
                         line_nr, line_nr + 1, FALSE)
              ELSE ExoFileSections_next(lines, line_nr + 1)

\* ExoFileItems::next, exo_file.rs 84-103
RECURSIVE ExoFileItems_next(_, _)
ExoFileItems_next(lines, line_nr) ==
    IF line_nr >= Len(lines)
    THEN Yield(FALSE, NoneStr, NoItem, -1, line_nr, FALSE)
    ELSE LET split == split_once_and_trim_ascii(lines[line_nr + 1], ";") IN
         IF split.a = <<>> THEN ExoFileItems_next(lines, line_nr + 1)
         ELSE IF ends_with(split.a, "}")
              THEN Yield(FALSE, NoneStr, NoItem, -1, line_nr, FALSE)
              ELSE Yield(TRUE, NoneStr,
                         [line |-> split.a, key |-> <<>>, value |-> NoneStr,
                          comment |-> split.b],
                         line_nr, line_nr + 1, FALSE)

\* the section name of a line of an INI file, ini_file.rs 43-47
IniSectionName(line) ==
    IF starts_with(line, "[") /\ ends_with(line, "]")
    THEN SomeStr(trim_ascii(SubSeq(line, 2, Len(line) - 1)))
    ELSE NoneStr

\* IniFileSections::next with the unnamed section starting after its first line
RECURSIVE IniFileSections_next_PastFirst(_, _, _)
IniFileSections_next_PastFirst(lines, line_nr, initial) ==
    IF line_nr >= Len(lines)
    THEN Yield(FALSE, NoneStr, NoItem, -1, line_nr, initial)
    ELSE LET line == split_once_and_trim_ascii(lines[line_nr + 1], ";").a
             section_name == IniSectionName(line)
         IN
         IF line = <<>> THEN IniFileSections_next_PastFirst(lines, line_nr + 1, initial)
         ELSE IF ~section_name.some /\ initial
              THEN Yield(TRUE, section_name, NoItem, -1, line_nr + 1, FALSE)
              ELSE IF section_name.some
                   THEN Yield(TRUE, section_name, NoItem, line_nr, line_nr + 1, FALSE)
                   ELSE IniFileSections_next_PastFirst(lines, line_nr + 1, FALSE)

\* IniFileSections::next, ini_file.rs 34-74
RECURSIVE IniFileSections_next(_, _, _)
IniFileSections_next(lines, line_nr, initial) ==
    IF line_nr >= Len(lines)
    THEN Yield(FALSE, NoneStr, NoItem, -1, line_nr, initial)
    ELSE LET line == split_once_and_trim_ascii(lines[line_nr + 1], ";").a
             section_name == IniSectionName(line)
         IN
         IF line = <<>> THEN IniFileSections_next(lines, line_nr + 1, initial)
         ELSE IF ~section_name.some /\ initial
              THEN Yield(TRUE, section_name, NoItem, -1, line_nr, FALSE)
              ELSE IF section_name.some
                   THEN Yield(TRUE, section_name, NoItem, line_nr, line_nr + 1, FALSE)
                   ELSE IniFileSections_next(lines, line_nr + 1, FALSE)

\* IniFileItems::next, ini_file.rs 100-121
RECURSIVE IniFileItems_next(_, _)
IniFileItems_next(lines, line_nr) ==
    IF line_nr >= Len(lines)
    THEN Yield(FALSE, NoneStr, NoItem, -1, line_nr, FALSE)
    ELSE LET split == split_once_and_trim_ascii(lines[line_nr + 1], ";") IN
         IF split.a = <<>> THEN IniFileItems_next(lines, line_nr + 1)
         ELSE IF starts_with(split.a, "[") /\ ends_with(split.a, "]")
              THEN Yield(FALSE, NoneStr, NoItem, -1, line_nr, FALSE)
              ELSE LET kv == split_once_and_trim_ascii(split.a, "=") IN
                   Yield(TRUE, NoneStr,
                         [line |-> split.a, key |-> kv.a, value |-> kv.b,
                          comment |-> split.b],
                         line_nr, line_nr + 1, FALSE)

\* a file with brace sections as the format describes it: outside a section
\* only blank and comment lines, a section is a line "{ name", its item,
\* blank and comment lines, and a line "}" of its own
RECURSIVE WellFormedExo(_, _, _)
WellFormedExo(lines, i, inside) ==
    IF i > Len(lines) THEN ~inside
    ELSE LET line == split_once_and_trim_ascii(lines[i], ";").a IN
         CASE line = <<>> -> WellFormedExo(lines, i + 1, inside)
           [] line # <<>> /\ Head(line) = "{" ->
                ~inside /\ WellFormedExo(lines, i + 1, TRUE)
           [] line = <<"}">> -> inside /\ WellFormedExo(lines, i + 1, FALSE)
           [] OTHER -> inside /\ line[Len(line)] # "}"
                          /\ WellFormedExo(lines, i + 1, inside)

FilesOf(choices, n) == UNION { [1..k -> choices] : k \in 0..n }

\* the file, the sections iterator, the items iterator of the section at
\* hand (items_at -1: none), and what the two loops have received so far
Tok(kind, lines, line_nr, initial, items_at, out, phase) ==
    [kind |-> kind, lines |-> lines, line_nr |-> line_nr, initial |-> initial,
     items_at |-> items_at, out |-> out, phase |-> phase]

TokNone == Tok("none", <<>>, 0, TRUE, -1, <<>>, "none")

\* IniFile::new and sections(), ExoFile::new and sections()
TokInit ==
    \/ \E lines \in FilesOf(IniLineChoices, MaxLines) :
          tok = Tok("ini", lines, 0, TRUE, -1, <<>>, "sections")
    \/ \E lines \in FilesOf(ExoLineChoices, MaxExoLines) :
          /\ WellFormedExo(lines, 1, FALSE)
          /\ tok = Tok("exo", lines, 0, TRUE, -1, <<>>, "sections")

SectionsNextOf(t) ==
    IF t.kind = "ini" THEN IniFileSections_next(t.lines, t.line_nr, t.initial)
    ELSE ExoFileSections_next(t.lines, t.line_nr)

ItemsNextOf(t) ==
    IF t.kind = "ini" THEN IniFileItems_next(t.lines, t.items_at)
    ELSE ExoFileItems_next(t.lines, t.items_at)

\* for section in file.sections(): the next section and its items()
SectionsNext ==
    /\ tok.phase = "sections"
    /\ LET y == SectionsNextOf(tok) IN
       tok' = IF y.found
              THEN [tok EXCEPT !.line_nr = y.line_nr, !.initial = y.initial,
                               !.items_at = y.line_nr, !.phase = "items",
                               !.out = Append(@, [type |-> "section",
                                                  name |-> y.name, at |-> y.at,
                                                  item |-> NoItem])]
              ELSE [tok EXCEPT !.line_nr = y.line_nr, !.initial = y.initial,
                               !.phase = "done"]
    /\ UNCHANGED <<muxVars, cliVars, exceptTok>>

\* for item in section.items(): the next item, or the end of the section
ItemsNext ==
    /\ tok.phase = "items"
    /\ LET y == ItemsNextOf(tok) IN
       tok' = IF y.found
              THEN [tok EXCEPT !.items_at = y.line_nr,
                               !.out = Append(@, [type |-> "item",
                                                  name |-> NoneStr, at |-> y.at,
                                                  item |-> y.item])]
              ELSE [tok EXCEPT !.items_at = -1, !.phase = "sections"]
    /\ UNCHANGED <<muxVars, cliVars, exceptTok>>

NextTokens ==
    \/ SectionsNext
    \/ ItemsNext

----------------------------------------------------------------------------
\* controller/internal/file_bpac.rs: the values section of a BPac.

\* data lines of the values section
MaxDataLines == 3

\* the number after '#' on a data line; NoNumber: the line has none
RecordNumbers == {NoNumber, 0, 1, 3}

\* VariableKindInternal::offset_size_of_bpac_variable
offset_size_of_bpac_variable(kind) == page_size_of_bpac_variable(kind)

\* what parse_bpac_column_headers returns: (kind, name) of every column
ColumnHeaders ==
    { <<[kind |-> "Integer", name |-> "A"]>>,
      <<[kind |-> "Real", name |-> "A"], [kind |-> "Index", name |-> "B"]>>,
      <<[kind |-> "Logic", name |-> "A"], [kind |-> "Huge", name |-> "B"],
        [kind |-> "Integer", name |-> "C"]>> }

\* format!("Records({i}).{name}")
RecordName(i, name) == [rec |-> i, col |-> name]

\* add_bpac_variable, lines 100-104
add_bpac_variable(variables, offset, kind, name) ==
    [variables |-> VariableMapInsert(variables, {VarEntry(name, kind, offset)}),
     offset |-> offset + offset_size_of_bpac_variable(kind)]

\* for (kind, name) in columns { add_bpac_variable(.., Records(i).name, ..) },
\* from column j on
RECURSIVE AddRecord(_, _, _, _, _)
AddRecord(variables, offset, columns, i, j) ==
    IF j > Len(columns) THEN [variables |-> variables, offset |-> offset]
    ELSE LET r == add_bpac_variable(variables, offset, columns[j].kind,
                                    RecordName(i, columns[j].name))
         IN AddRecord(r.variables, r.offset, columns, i, j + 1)

\* a line numbered above the records stored continuing at its number with
\* no record synthesised
FillRecordsSkips(variables, offset, columns, i, nr) ==
    [variables |-> variables, offset |-> offset, i |-> IF i < nr THEN nr ELSE i]

\* while i < nr { <one record without comment>; i += 1 }, lines 44-49
RECURSIVE FillRecords(_, _, _, _, _)
FillRecords(variables, offset, columns, i, nr) ==
    IF i < nr
    THEN LET r == AddRecord(variables, offset, columns, i, 1)
         IN FillRecords(r.variables, r.offset, columns, i + 1, nr)
    ELSE [variables |-> variables, offset |-> offset, i |-> i]

BPac(phase, columns, variables, offset, i, nr, lines) ==
    [phase |-> phase, columns |-> columns, variables |-> variables,
     offset |-> offset, i |-> i, nr |-> nr, lines |-> lines]

BpNone == BPac("none", <<>>, {}, 0, 0, 0, <<>>)

\* parse_bpac_file has entered the values section: columns is None, the
\* VariableMap is empty, offset, i and nr are 0
BpInit == bp = BPac("header", <<>>, {}, 0, 0, 0, <<>>)

\* the first item of the section: the column headers (lines 37-41)
HeaderLine(columns) ==
    /\ bp.phase = "header"
    /\ bp' = [bp EXCEPT !.phase = "values", !.columns = columns]
    /\ UNCHANGED <<muxVars, cliVars, exceptBp>>

\* a later item: a data line with the number n after '#' (lines 43-54)
DataLine(n) ==
    /\ bp.phase = "values"
    /\ Len(bp.lines) < MaxDataLines
    /\ \E nr \in {IF n = NoNumber \/ n < bp.nr THEN bp.nr ELSE n} :
       \E filled \in {FillRecords(bp.variables, bp.offset, bp.columns, bp.i, nr)} :
       \E r \in {AddRecord(filled.variables, filled.offset, bp.columns, filled.i, 1)} :
          bp' = [bp EXCEPT !.nr = nr, !.variables = r.variables, !.offset = r.offset,
                           !.i = filled.i + 1, !.lines = Append(@, n)]
    /\ UNCHANGED <<muxVars, cliVars, exceptBp>>

NextBPac ==
    \/ \E columns \in ColumnHeaders : HeaderLine(columns)
    \/ \E n \in RecordNumbers : DataLine(n)

----------------------------------------------------------------------------
\* Connection::read_response, connection.rs 38-82, called once on a stream
\* of bytes that is known in full: what it consumes and what it returns.

\* the length of the stream, and the bytes it is made of
MaxStreamLen == 5

StreamBytes == {BEGIN_RESPONSE, BEGIN_REQUEST, END_MESSAGE, 65, 66}

Fr(phase, stream, pos, st) ==
    [phase |-> phase, stream |-> stream, pos |-> pos, st |-> st]

FrNone == Fr("none", <<>>, 0, ReadStart)

\* let mut buffer = None, before the first read
FrInit ==
    \E stream \in UNION { [1..n -> StreamBytes] : n \in 0..MaxStreamLen } :
        fr = Fr("reading", stream, 0, ReadStart)

\* reader.read returns the next byte of the stream
FrByte ==
    /\ fr.phase = "reading"
    /\ fr.st.kind = "reading"
    /\ fr.pos < Len(fr.stream)
    /\ fr' = [fr EXCEPT !.pos = @ + 1,
                        !.st = ReadByte(fr.st, fr.stream[fr.pos + 1])]
    /\ UNCHANGED <<muxVars, cliVars, exceptFr>>

\* reader.read returns 0 bytes: the stream is used up
FrEof ==
    /\ fr.phase = "reading"
    /\ fr.st.kind = "reading"
    /\ fr.pos = Len(fr.stream)
    /\ fr' = [fr EXCEPT !.st = ReadEnded(fr.st)]
    /\ UNCHANGED <<muxVars, cliVars, exceptFr>>

\* read_response has returned
FrReturn ==
    /\ fr.phase = "reading"
    /\ fr.st.kind # "reading"
    /\ fr' = [fr EXCEPT !.phase = "returned"]
    /\ UNCHANGED <<muxVars, cliVars, exceptFr>>

NextFraming ==
    \/ FrByte
    \/ FrEof
    \/ FrReturn

----------------------------------------------------------------------------
\* Specifications. Each one starts the part it is about and leaves the
\* other parts idle.

MuxIdle == MuxInit
CliIdle == CliInit
CodecIdle == codec = CodecNone
VPacIdle == vpac = VPacNone
CtlIdle == ctl = CtlNone
LoaderIdle == loader = LoaderNone
RdIdle == rd = RdNone
EncIdle == buf = EncNone
TokIdle == tok = TokNone

LayoutIdle == VPacIdle /\ CtlIdle /\ LoaderIdle

FrIdle == fr = FrNone
BpIdle == bp = BpNone

TextIdle == RdIdle /\ EncIdle /\ TokIdle /\ FrIdle /\ BpIdle

Init == MuxInit /\ CliInit /\ CodecIdle /\ LayoutIdle /\ TextIdle

InitCodec == MuxIdle /\ CliIdle /\ CodecInit /\ LayoutIdle /\ TextIdle

SpecCodec == InitCodec /\ [][NextCodec]_vars

InitVPac ==
    MuxIdle /\ CliIdle /\ CodecIdle /\ VPacInit /\ CtlIdle /\ LoaderIdle /\ TextIdle

SpecVPac == InitVPac /\ [][NextVPac]_vars

InitController ==
    MuxIdle /\ CliIdle /\ CodecIdle /\ VPacIdle /\ CtlInit /\ LoaderIdle /\ TextIdle

SpecController == InitController /\ [][NextController]_vars

InitLoader ==
    MuxIdle /\ CliIdle /\ CodecIdle /\ VPacIdle /\ CtlIdle /\ LoaderInit /\ TextIdle

SpecLoader == InitLoader /\ [][NextLoader]_vars

InitReader ==
    MuxIdle /\ CliIdle /\ CodecIdle /\ LayoutIdle /\ RdInit /\ EncIdle /\ TokIdle /\ FrIdle /\ BpIdle

SpecReader == InitReader /\ [][NextReader]_vars

InitU24 ==
    MuxIdle /\ CliIdle /\ CodecIdle /\ LayoutIdle /\ RdIdle /\ EncInit /\ TokIdle /\ FrIdle /\ BpIdle

SpecU24 == InitU24 /\ [][NextU24]_vars

InitTokens ==
    MuxIdle /\ CliIdle /\ CodecIdle /\ LayoutIdle /\ RdIdle /\ EncIdle /\ TokInit /\ FrIdle /\ BpIdle

SpecTokens == InitTokens /\ [][NextTokens]_vars

InitFraming ==
    MuxIdle /\ CliIdle /\ CodecIdle /\ LayoutIdle /\ RdIdle /\ EncIdle /\ TokIdle
        /\ FrInit /\ BpIdle

SpecFraming == InitFraming /\ [][NextFraming]_vars

InitBPac ==
    MuxIdle /\ CliIdle /\ CodecIdle /\ LayoutIdle /\ RdIdle /\ EncIdle /\ TokIdle
        /\ FrIdle /\ BpInit

SpecBPac == InitBPac /\ [][NextBPac]_vars

SpecClient == Init /\ [][NextClient]_vars



Next ==
    \/ \E c \in Callers : Enqueue(c)
    \/ \E c \in Callers : AcquireWriter(c)
    \/ \E c \in Callers : WriteOk(c)
    \/ \E c \in Callers : WriteFail(c)
    \/ \E c \in Callers : Return(c)
    \/ \E c \in Callers : Abandon(c)
    \/ DeviceRespond
    \/ DeviceUnsolicited
    \/ DeviceClose
    \/ ReadFrame
    \/ DeliverFrame
    \/ \E e \in {"IO", "InvalidData"} : ReadError(e)
    \/ Drain
    \/ ReadEof
    \/ Shutdown

Spec == Init /\ [][Next]_vars

\* What the runtime guarantees: the spawned receive_response task is polled
\* whenever it can proceed; a socket write that was started completes or
\* fails; the writer mutex of tokio is fair, so a waiting caller gets it; a
\* caller whose oneshot holds a value is woken. Nothing obliges a caller to
\* start a request, the device to answer, or the socket to fail.
ReaderStep == ReadFrame \/ DeliverFrame \/ Drain \/ ReadEof \/ Shutdown

\* number of callers in the runs checked under fairness
MaxFairCallers == 1

FairCallers == 1..MaxFairCallers

NextFair ==
    \/ \E c \in FairCallers : Enqueue(c)
    \/ \E c \in FairCallers : AcquireWriter(c)
    \/ \E c \in FairCallers : WriteOk(c)
    \/ \E c \in FairCallers : WriteFail(c)
    \/ \E c \in FairCallers : Return(c)
    \/ \E c \in FairCallers : Abandon(c)
    \/ DeviceRespond
    \/ DeviceUnsolicited
    \/ DeviceClose
    \/ ReadFrame
    \/ DeliverFrame
    \/ \E e \in {"IO", "InvalidData"} : ReadError(e)
    \/ Drain
    \/ ReadEof
    \/ Shutdown

Fairness ==
    /\ WF_vars(ReaderStep)
    /\ \A c \in FairCallers : WF_vars(WriteOk(c) \/ WriteFail(c))
    /\ \A c \in FairCallers : SF_vars(AcquireWriter(c))
    /\ \A c \in FairCallers : WF_vars(Return(c))

SpecFair == Init /\ [][NextFair]_vars /\ Fairness

TypeOK ==
    /\ pc \in [Callers -> {"idle", "locking", "writing", "awaiting", "returned", "abandoned"}]
    /\ writer \in 0..NumCallers
    /\ answered \in 0..Len(wire)
    /\ readerPc \in {"reading", "got", "failing", "closing", "done"}

----------------------------------------------------------------------------
\* Claims about the multiplexer.

Written == {wire[i].req : i \in 1..Len(wire)}

\* send_request returned through the write-error branch (lines 747-750)
WriteFailed(c) == pc[c] = "returned" /\ c \notin Written

PosIn(seq, x) == CHOOSE i \in 1..Len(seq) : seq[i] = x

\* the frames were written in the order in which their slots were pushed:
\* whoever enqueued before a writer wrote before it, or gave up before writing
InOrderWrites ==
    \A i \in 1..Len(wire) :
        \A j \in 1..(PosIn(enqOrder, wire[i].req) - 1) :
            \/ \E h \in 1..(i - 1) : wire[h].req = enqOrder[j]
            \/ pc[enqOrder[j]] = "abandoned" /\ enqOrder[j] \notin Written

\* C1: with no caller abandoned, no write failed and a device that answers
\* each request once, the k-th frame received is handed to the caller whose
\* request was the k-th one written to the socket.
C1_FifoPairing ==
    (/\ unsolicited = 0
     /\ \A c \in Callers : pc[c] # "abandoned" /\ ~WriteFailed(c))
    => \A k \in 1..Len(completions) :
          completions[k].val.st = "ok"
          => /\ k <= Len(wire)
             /\ completions[k].to = wire[k].req

\* C2: whatever callers were abandoned, every frame is handed to the slot of
\* the request it answers (stated for runs in which the frames were written
\* in enqueue order, no write failed and the device sent nothing unasked).
C2_AbandonKeepsOrder ==
    (/\ unsolicited = 0
     /\ InOrderWrites
     /\ \A c \in Callers : ~WriteFailed(c))
    => \A k \in 1..Len(completions) :
          completions[k].val.st = "ok"
          => completions[k].val.data = DevicePayload(completions[k].to)

\* the EXOlineError a read error of kind e is turned into
C3_ErrorOf(e) ==
    [st |-> "err", data |-> <<>>,
     kind |-> IF e = "IO" THEN "IO" ELSE "InvalidResponse",
     msg |-> IF e = "IO" THEN "" ELSE "The server sent invalid data",
     code |-> 0]

\* C3: when the read loop handles a read error, every slot queued at that
\* moment is completed with that error, oldest first, the queue is left
\* empty and the loop terminates with that error.
C3_ReadErrorFanOut ==
    [][(readerPc = "failing" /\ readerPc' = "done")
       => /\ response_queue' = <<>>
          /\ loopResult' = (IF readerErr = "IO" THEN "IO"
                            ELSE "InvalidResponse:invalid data")
          /\ Len(completions') = Len(completions) + Len(response_queue)
          /\ SubSeq(completions', 1, Len(completions)) = completions
          /\ \A k \in 1..Len(response_queue) :
                /\ completions'[Len(completions) + k].to = response_queue[k]
                /\ completions'[Len(completions) + k].val = C3_ErrorOf(readerErr)
                /\ slot'[response_queue[k]] = C3_ErrorOf(readerErr)]_vars

\* a read error was fanned out to two queued slots
C3_Witness ==
    /\ readerPc = "done"
    /\ loopResult \in {"IO", "InvalidResponse:invalid data"}
    /\ Cardinality({k \in 1..Len(completions) : completions[k].val.st = "err"}) >= 2
    /\ response_queue = <<>>


----------------------------------------------------------------------------
\* Single operations (SpecClient)

\* the caller's operation sent exactly one request and has returned
C_AnsweredOnce == cpc = "done" /\ Len(cwire) = 1 /\ canswered = 1

\* C4: a response frame whose payload is the one byte c, escaped on the wire
\* where framing needs it, makes the pending operation return Exception with
\* code c, for every byte c.
C4_SingleByteIsException ==
    (C_AnsweredOnce /\ call.op \notin DPacOps /\ device.last.kind = "exception")
        => /\ cresult.st = "err"
           /\ cresult.kind = "ExolineException"
           /\ cresult.code = device.last.code

\* C5: a write whose request was answered with a success response of empty
\* body (the payload is the CRC of the empty body alone) returns Ok(()).
C5_EmptySuccessIsOk ==
    (C_AnsweredOnce /\ call.op = "write_variable_raw"
        /\ device.last.kind = "success" /\ device.last.body = <<>>)
        => cresult = OpOk(Unit, {})

\* the operation returns InvalidArguments in this step
C6_ReturnsInvalidArguments ==
    /\ cpc # "done"
    /\ cpc' = "done"
    /\ cresult'.st = "err"
    /\ cresult'.kind = "InvalidArguments"

\* C6: when an operation returns InvalidArguments it has pushed no slot and
\* written no byte: the response queue and the wire are as they were.
C6_InvalidArgumentsOffWire ==
    [][C6_ReturnsInvalidArguments => (cqueue' = cqueue /\ cwire' = cwire)]_vars

C6_Witness ==
    /\ cpc = "done"
    /\ call.op = "write_variable_raw"
    /\ cresult.kind = "InvalidArguments"
    /\ cresult.msg = "Error encoding message"
    /\ cqueue = <<>>
    /\ cwire = <<>>

\* the offset as write_u24 carries it
C_U24(o) == <<o % 256, (o \div 256) % 256, (o \div 65536) % 256>>

\* C7: write_variable on a String variable of a Text file sends the command
\* WriteString with the VPac file-kind byte, the load number, the u24 offset
\* and the CP850 bytes of the value.
C7_TextWriteIsWriteString ==
    (call.op = "write_variable_raw" /\ call.file_kind = "Text"
        /\ call.variable_kind = "String" /\ Len(cwire) = 1)
        => /\ cwire[1].cmd = "WriteString"
           /\ cwire[1].body = <<0, call.load_number>> \o C_U24(call.offset)
                                  \o encode_string_lossy(call.value.str)

\* the combinations the table of read_variable and write_variable supports
C8_Supported(file_kind, variable_kind) ==
    \/ file_kind \in {"Task", "VPac"}
    \/ file_kind = "BPac" /\ variable_kind # "String"
    \/ file_kind = "Text" /\ variable_kind = "String"

C8_KindByte(file_kind) ==
    CASE file_kind = "Task" -> 1
      [] file_kind = "VPac" -> 0
      [] file_kind = "BPac" -> 2
      [] file_kind = "Text" -> 0

\* a read, or a write whose variant has the variable's kind and, being a
\* string, fits the encoder (one CP850 byte per character)
C8_Case ==
    \/ call.op = "read_variable_raw"
    \/ /\ call.op = "write_variable_raw"
       /\ call.value.tag = call.variable_kind
       /\ Len(call.value.str) <= 127

\* C8: read_variable_raw and write_variable_raw put a request on the wire
\* exactly for Task and VPac with any kind, BPac with any kind but String,
\* and Text with String; the request begins with the file-kind byte (Task 1,
\* VPac 0, BPac 2, Text 0), the load number and the offset as three
\* little-endian bytes.
C8_SupportedCombinations ==
    C8_Case =>
        IF C8_Supported(call.file_kind, call.variable_kind)
        THEN /\ Len(cwire) = 1
             /\ SubSeq(cwire[1].body, 1, 5) =
                    <<C8_KindByte(call.file_kind), call.load_number>>
                        \o C_U24(call.offset)
        ELSE cwire = <<>> /\ cqueue = <<>>

C8_Witness ==
    /\ call.op = "write_variable_raw"
    /\ call.file_kind = "BPac"
    /\ call.variable_kind = "Integer"
    /\ call.value.tag = "Integer"
    /\ call.offset = 305419896
    /\ Len(cwire) = 1
    /\ cwire[1].body = <<2, 241, 120, 86, 52, 253, 255>>

\* the value of n bytes of the device's page stream from byte j, little-endian
RECURSIVE C9_Le(_, _)
C9_Le(j, n) == IF n = 0 THEN 0 ELSE StreamByte(j) + (256 * C9_Le(j + 1, n - 1))

\* the same as a two's complement number
C9_SignedLe(j, n) ==
    LET top == StreamByte(j + n - 1) IN
    C9_Le(j, n - 1) + ((IF top >= 128 THEN top - 256 ELSE top) * (2 ^ (8 * (n - 1))))

\* where a variable begins in the page stream
C9_Begin(file_kind, variable) ==
    IF file_kind = "VPac" THEN 2 * variable.offset ELSE variable.offset

\* the value of a variable as the page stream holds it: at o + 1 in a VPac,
\* at o in a BPac
C9_Value(file_kind, variable) ==
    LET j == C9_Begin(file_kind, variable) + (IF file_kind = "VPac" THEN 1 ELSE 0) IN
    CASE variable.kind = "Huge" -> Variant("Huge", C9_SignedLe(j, 4), <<>>)
      [] variable.kind = "Real" -> Variant("Real", C9_SignedLe(j, 4), <<>>)
      [] variable.kind = "Integer" -> Variant("Integer", C9_SignedLe(j, 2), <<>>)
      [] variable.kind = "Index" -> Variant("Index", StreamByte(j), <<>>)
      [] variable.kind = "Logic" ->
            Variant("Logic", IF StreamByte(j) # 0 THEN 1 ELSE 0, <<>>)

\* the map over the non-string variables of the call that lie wholly within
\* the first `bytes` bytes of the page stream
C9_Expected(c, bytes) ==
    { [kind |-> c.variables[i].kind, offset |-> c.variables[i].offset,
       value |-> C9_Value(c.file_kind, c.variables[i])] :
        i \in { k \in 1..Len(c.variables) :
                  /\ c.variables[k].kind # "String"
                  /\ C9_Begin(c.file_kind, c.variables[k])
                        + PageSize(c.file_kind, c.variables[k]) <= bytes } }

\* C9: against a device that has pages 0..P and answers AddressOutsideRange
\* beyond them, read_dpac returns the map whose keys are the file's
\* non-string variables lying within [0, (P+1)*120) and whose values are the
\* little-endian decodings of the page stream.
C9_ReadDPacMap ==
    (cpc = "done" /\ call.op = "read_dpac" /\ call.file_kind \in {"VPac", "BPac"}
        /\ device.fail = -1)
        => /\ cresult.st = "ok"
           /\ cresult.map = C9_Expected(call, (device.pages + 1) * 120)

C9_Witness ==
    /\ cpc = "done"
    /\ call.op = "read_dpac"
    /\ call.file_kind = "VPac"
    /\ call.variables = <<[kind |-> "Integer", offset |-> 60]>>
    /\ device.fail = -1
    /\ device.pages = 1
    /\ cresult.map = {[kind |-> "Integer", offset |-> 60,
                       value |-> Variant("Integer", 8721, <<>>)]}

\* read_dpac is handed the answer AddressOutsideRange to its page request
C10_OutsideRange ==
    /\ cpc = "awaiting"
    /\ call.op = "read_dpac"
    /\ cslot = Ok(<<AddressOutsideRange>>)
    /\ cslot' = NoResult

\* C10: when a page request of read_dpac is answered with AddressOutsideRange,
\* read_dpac sends no further request and returns Ok with the values of the
\* variables that lie wholly within the pages fetched so far.
C10_OutsideRangeEndsPaging ==
    [][C10_OutsideRange =>
          /\ cpc' = "done"
          /\ cwire' = cwire
          /\ cqueue' = cqueue
          /\ cresult'.st = "ok"
          /\ cresult'.map = C9_Expected(call, Len(dpac.data))]_vars

C10_Witness ==
    /\ cpc = "done"
    /\ call.op = "read_dpac"
    /\ call.file_kind = "BPac"
    /\ Len(call.variables) = 2
    /\ device.last.kind = "exception"
    /\ device.last.code = AddressOutsideRange
    /\ Len(cwire) = 2
    /\ cresult.st = "ok"
    /\ Cardinality(cresult.map) = 1


\* the variables read_dpac_page is to return: the non-string variables that
\* begin in the page and lie wholly inside it, with their values in the stream
C11_Expected(c) ==
    { e \in C9_Expected(c, (c.only_page + 1) * 120) :
        \E i \in 1..Len(c.variables) :
            /\ c.variables[i].kind = e.kind
            /\ c.variables[i].offset = e.offset
            /\ C9_Begin(c.file_kind, c.variables[i]) \div 120 = c.only_page }

\* C11: read_dpac_page(file, p) sends at most one ReadDPacPage request, for
\* page p, and once the page is returned (or none was needed) its result is
\* exactly the non-string variables that begin in page p and lie wholly
\* inside it, each decoded from its place o mod 120 of that page.
C11_SinglePage ==
    (call.op = "read_dpac_page" /\ call.file_kind \in {"VPac", "BPac"})
        => /\ Len(cwire) <= 1
           /\ Len(cwire) = 1 =>
                 /\ cwire[1].cmd = "ReadDPacPage"
                 /\ cwire[1].body = <<call.load_number, call.only_page>>
           /\ (cpc = "done" /\ (canswered = 0 \/ device.last.kind = "success"))
                 => /\ cresult.st = "ok"
                    /\ cresult.map = C11_Expected(call)

C11_Witness ==
    /\ cpc = "done"
    /\ call.op = "read_dpac_page"
    /\ call.file_kind = "VPac"
    /\ call.only_page = 1
    /\ call.variables = <<[kind |-> "Huge", offset |-> 58],
                          [kind |-> "Integer", offset |-> 60]>>
    /\ Len(cwire) = 1
    /\ device.last.kind = "success"
    /\ cresult.map = {[kind |-> "Integer", offset |-> 60,
                       value |-> Variant("Integer", 8721, <<>>)]}

\* the request of read_exoline_address for the byte at offset i
C12_Request(i) ==
    [pla |-> 255, ela |-> 30, cmd |-> "ReadIndex", body |-> <<0, 241, i, 0, 0>>]

\* C12: read_exoline_address sends two Index reads to (255, 30), VPac, load
\* number 0xF1, at offset 0 and then at offset 1; the second is sent only
\* once the first has been answered successfully, and the result is the pair
\* (first value, second value).
C12_ExolineAddress ==
    call.op = "read_exoline_address"
        => /\ Len(cwire) <= 2
           /\ \A i \in 1..Len(cwire) : cwire[i] = C12_Request(i - 1)
           /\ Len(cwire) = 2 => (canswered >= 1 /\ pla.st = "ok")
           /\ (pla.st = "ok" /\ canswered = 1)
                 => pla.value = Variant("Index", device.last.body[1], <<>>)
           /\ (cpc = "done" /\ pla.st # "ok")
                 => (Len(cwire) = 1 /\ cresult.st = "err")
           /\ (cpc = "done" /\ cresult.st = "ok")
                 => /\ Len(cwire) = 2
                    /\ canswered = 2
                    /\ cresult.value.str = <<pla.value.num, device.last.body[1]>>

C12_Witness ==
    /\ call.op = "read_exoline_address"
    /\ cpc = "done"
    /\ cwire = <<C12_Request(0), C12_Request(1)>>
    /\ cresult = OpOk(Variant("Address", 0, <<1, 2>>), {})

----------------------------------------------------------------------------
\* The byte codec (SpecCodec)

\* a sequence with each of 0x01, 0x02, 0x03, 0x1B replaced by 0x1B and the
\* bitwise NOT of the byte
RECURSIVE C13_Escaped(_)
C13_Escaped(s) ==
    IF s = <<>> THEN <<>>
    ELSE (IF Head(s) \in {1, 2, 3, 27} THEN <<27, 255 - Head(s)>> ELSE <<Head(s)>>)
            \o C13_Escaped(Tail(s))

\* C13: unescape(escape(s)) = s; escape(s) replaces each 0x01, 0x02, 0x03,
\* 0x1B by 0x1B and the NOT of the byte and copies every other byte, so it
\* holds no 0x01, 0x02, 0x03 and no 0x1B but as the first byte of a pair.
C13_EscapeRoundTrip ==
    /\ codec.phase = "escaped" =>
          /\ codec.data = C13_Escaped(codec.s)
          /\ \A i \in 1..Len(codec.data) :
                /\ codec.data[i] \notin {1, 2, 3}
                /\ codec.data[i] = 27 =>
                      /\ i < Len(codec.data)
                      /\ codec.data[i + 1] \in {254, 253, 252, 228}
    /\ codec.phase = "unescaped" => codec.data = codec.s

C13_Witness ==
    /\ codec.phase = "escaped"
    /\ codec.s = <<2, 65, 27>>
    /\ codec.data = <<27, 253, 65, 27, 228>>

\* bit k of the XOR of the bytes of s
C14_XorBit(s, k) ==
    Cardinality({i \in 1..Len(s) : (s[i] \div (2 ^ k)) % 2 = 1}) % 2

\* C14: verify_and_remove_crc of s with append_crc returns s, the byte
\* appended is the XOR of the bytes of s, and with any one byte of the
\* sequence changed to another value the verification fails.
C14_CrcRoundTrip ==
    /\ codec.phase = "crc" =>
          /\ Len(codec.data) = Len(codec.s) + 1
          /\ SubSeq(codec.data, 1, Len(codec.s)) = codec.s
          /\ \A k \in 0..7 :
                (codec.data[Len(codec.data)] \div (2 ^ k)) % 2 = C14_XorBit(codec.s, k)
    /\ (codec.phase = "verified" /\ ~codec.changed) =>
          (codec.some /\ codec.body = codec.s)
    /\ (codec.phase = "verified" /\ codec.changed) => ~codec.some

C14_Witness ==
    /\ codec.phase = "verified"
    /\ codec.changed
    /\ codec.s = <<2, 65>>
    /\ codec.data = <<2, 0, 67>>
    /\ ~codec.some
----------------------------------------------------------------------------
----------------------------------------------------------------------------
\* C16: in a VPac with pages = n > 1 every base entry (scalar or array
\* element) at offset b has, for each p in 1..n-1, exactly one entry named
\* Pages(p).Name, of the same kind, at offset b + 60 * p; no entry is named
\* Pages(p) for any other p; with pages = 1 there are no aliases at all.
C16_PagedAliases ==
    /\ \A e \in vpac.variables :
          e.name.page = 0 =>
              \A p \in 1..(vpac.pages - 1) :
                  { a \in vpac.variables :
                       a.name = [e.name EXCEPT !.page = p] }
                    = { [name |-> [e.name EXCEPT !.page = p], kind |-> e.kind,
                         offset |-> e.offset + 60 * p] }
    /\ \A a \in vpac.variables :
          a.name.page # 0 =>
              /\ vpac.pages > 1
              /\ a.name.page >= 1
              /\ a.name.page <= vpac.pages - 1
              /\ \E e \in vpac.variables :
                    e.name = [a.name EXCEPT !.page = 0]

\* pages = 3: the array element Foo(18) of kind Huge at offset 54 has the
\* aliases Pages(1).Foo(18) at 114 and Pages(2).Foo(18) at 174, and the
\* scalar Bar declared after it has its two aliases as well.
C16_Witness ==
    /\ vpac.pages = 3
    /\ VarEntry(VarName("Foo", 18, 0), "Huge", 54) \in vpac.variables
    /\ VarEntry(VarName("Foo", 18, 1), "Huge", 114) \in vpac.variables
    /\ VarEntry(VarName("Foo", 18, 2), "Huge", 174) \in vpac.variables
    /\ VarEntry(VarName("Bar", NoLength, 0), "Index", 57) \in vpac.variables
    /\ VarEntry(VarName("Bar", NoLength, 2), "Index", 177) \in vpac.variables

----------------------------------------------------------------------------
\* C17: for a loaded controller and a name File.Var, lookup_variable returns
\* for every upper/lower-case spelling of the file part and of the variable
\* part what it returned for the spelling looked up: None for all of them,
\* or a variable of the same file kind, load number, kind and offset; in
\* each of the three load modes.
C17_SameVariable(a, b) ==
    /\ a.some = b.some
    /\ a.some =>
          /\ a.file_kind = b.file_kind
          /\ a.load_number = b.load_number
          /\ a.kind = b.kind
          /\ a.offset = b.offset

C17_CaseInsensitive ==
    (ctl.op.type = "lookup" /\ \E i \in 1..Len(ctl.op.name) : ctl.op.name[i] = ".")
        => \A s \in Spellings(ctl.op.name) :
              C17_SameVariable(lookup_variable(ctl, s), ctl.op.result)

\* PA.X was looked up in a controller whose DPac was listed as pa, and the
\* Huge at offset 0 with load number 5 came back; pa.x returns it as well.
C17_Witness ==
    /\ ctl.op.type = "lookup"
    /\ ctl.op.name = <<"P", "A", ".", "X">>
    /\ ctl.op.result.some
    /\ ctl.op.result.file_name = <<"p", "a">>
    /\ ctl.op.result.kind = "Huge"
    /\ ctl.op.result.load_number = 5
    /\ lookup_variable(ctl, <<"p", "a", ".", "x">>).some

----------------------------------------------------------------------------
\* C18: for a name without a dot, lookup_variable returns a variable if and
\* only if some file of globals(), each of which is a DPac listed with /MS,
\* has a variable of that name; the variable returned is then one of such a
\* file, never one of a task, a text or a DPac listed without /MS.
C18_Holds(e, name) ==
    /\ e.item.section = "dpac"
    /\ e.item.global
    /\ e.file.kind \in {"VPac", "BPac"}
    /\ \E d \in e.file.decls : UniEq(d.name, name)

C18_BareNameIffGlobal ==
    (ctl.op.type = "lookup" /\ \A i \in 1..Len(ctl.op.name) : ctl.op.name[i] # ".")
        => /\ \A e \in ctl.globals : e.item.section = "dpac" /\ e.item.global
           /\ ctl.op.result.some
                 <=> \E e \in ctl.globals : C18_Holds(e, ctl.op.name)
           /\ ctl.op.result.some
                 => \E e \in ctl.globals :
                        /\ C18_Holds(e, ctl.op.name)
                        /\ e.key = ctl.op.result.file_name
                        /\ e.load_number = ctl.op.result.load_number
                        /\ e.file.kind = ctl.op.result.file_kind
                        /\ \E d \in e.file.decls :
                              /\ UniEq(d.name, ctl.op.name)
                              /\ d.kind = ctl.op.result.kind
                              /\ d.offset = ctl.op.result.offset

\* The task ta is listed with /MS and declares t and x; the DPac pa is global
\* and declares x. The bare name T finds nothing.
C18_Witness ==
    /\ ctl.op.type = "lookup"
    /\ ctl.op.name = <<"T">>
    /\ ~ctl.op.result.some
    /\ \E e \in ctl.tasks :
          e.item.global /\ \E d \in e.file.decls : d.name = <<"t">>
    /\ \E e \in ctl.globals : e.key = <<"p", "a">>
    /\ lookup_variable(ctl, <<"X">>).some
    /\ lookup_variable(ctl, <<"X">>).file_kind = "VPac"

----------------------------------------------------------------------------
\* C19: two Variable values compare equal if and only if they agree on file
\* kind, load number, kind and offset, whatever their names, comments and
\* file names are, and two equal variables have equal hashes.
C19_EqIffSameAddress ==
    ctl.op.type = "compare" =>
        /\ ctl.op.eq <=> ( <<ctl.op.a.file_kind, ctl.op.a.load_number,
                              ctl.op.a.kind, ctl.op.a.offset>>
                           = <<ctl.op.b.file_kind, ctl.op.b.load_number,
                               ctl.op.b.kind, ctl.op.b.offset>> )
        /\ ctl.op.eq => ctl.op.hash_a = ctl.op.hash_b

\* pa.x and pb.y are both the Huge at offset 0 of a VPac with load number 5:
\* equal, with different names, comments and file names.
C19_Witness ==
    /\ ctl.op.type = "compare"
    /\ ctl.mode = "WithNamesAndComments"
    /\ ctl.op.eq
    /\ ctl.op.a.name = <<"x">>
    /\ ctl.op.b.name = <<"Y">>
    /\ ctl.op.a.comment = "one"
    /\ ctl.op.b.comment = "other"
    /\ ctl.op.a.file_name # ctl.op.b.file_name
    /\ ctl.op.hash_a = <<3, 5, 0, 0>>

----------------------------------------------------------------------------
\* C20: in the controller load_selective builds, every text has load number
\* 127; every task and DPac (in tasks, dpacs and globals) has the /LN number
\* of its Load.Mdl item if the item has one and otherwise the number found
\* in the file; an item of the task or dpac section with neither number
\* has no entry in any collection.
C20_Expected(item) ==
    IF item.load_number # NoNumber THEN item.load_number ELSE item.file.load_number

C20_LoadNumbers ==
    /\ \A e \in ctl.texts : e.item.section = "text" /\ e.load_number = 127
    /\ \A e \in ctl.tasks \cup ctl.dpacs \cup ctl.globals :
          /\ e.item.section \in {"task", "dpac"}
          /\ e.load_number # NoNumber
          /\ e.load_number = C20_Expected(e.item)
    /\ \A item \in ctl.load_mdl :
          ( /\ item.section \in {"task", "dpac"}
            /\ item.file # NoFile
            /\ item.load_number = NoNumber
            /\ item.file.load_number = NoNumber )
          => \A e \in ctl.tasks \cup ctl.dpacs \cup ctl.texts \cup ctl.globals :
                e.item # item /\ ~UniEq(e.key, item.filename)

\* Load.Mdl lists the DPac pn (no /LN, none in the file), the task ta
\* (/LN=3, 255 in the file) and the text tx (/LN=9): the controller has ta
\* with 3, tx with 127 and no DPac at all.
C20_Witness ==
    /\ ctl.phase = "loaded"
    /\ \E item \in ctl.load_mdl :
          item.filename = <<"p", "n">> /\ item.load_number = NoNumber
    /\ ctl.dpacs = {}
    /\ ctl.globals = {}
    /\ \E e \in ctl.tasks :
          e.key = <<"t", "a">> /\ e.load_number = 3 /\ e.item.file.load_number = 255
    /\ \E e \in ctl.texts :
          e.key = <<"t", "x">> /\ e.load_number = 127 /\ e.item.load_number = 9

----------------------------------------------------------------------------
\* C21: for load_file calls on one loader for one path under SLib, in every
\* interleaving load_file_inner reads and parses the file at most once, and
\* every call that returns returns the value that run stored in the cell,
\* a failure (None) included.
C21_ReadOnce ==
    loader.under_slib =>
        /\ loader.reads <= 1
        /\ \A c, d \in Loads :
              (loader.lpc[c] = "returned" /\ loader.lpc[d] = "returned")
                  => loader.lresult[c] = loader.lresult[d]
        /\ \A c \in Loads :
              loader.lpc[c] = "returned"
                  => loader.reads = 1 /\ loader.lresult[c] \in Outcomes

\* Call 3 was aborted during its read; call 1 then read the file, failed, and
\* returned None; call 2 returned the cached None without reading.
C21_Witness ==
    /\ loader.under_slib
    /\ loader.lpc = [c \in Loads |-> IF c = 3 THEN "aborted" ELSE "returned"]
    /\ loader.lresult[1] = "None"
    /\ loader.lresult[2] = "None"
    /\ loader.started = 2
    /\ loader.reads = 1

----------------------------------------------------------------------------
\* C22: when the read loop holds a complete frame and finds the response
\* queue empty, it terminates with InvalidResponse ("unexpected response"):
\* that step sends to no slot, and once the loop has terminated no slot is
\* ever sent anything, so the frame reaches no caller.
C22_UnexpectedFrame ==
    [][ /\ (readerPc = "got" /\ readerPc' # "got" /\ response_queue = <<>>)
            => /\ readerPc' = "done"
               /\ loopResult' = "InvalidResponse:unexpected"
               /\ slot' = slot
               /\ completions' = completions
               /\ response_queue' = <<>>
        /\ readerPc = "done"
            => /\ readerPc' = "done"
               /\ loopResult' = loopResult
               /\ completions' = completions
               /\ slot' = slot ]_vars

\* The device sent a frame nobody asked for; the loop ended on it and a
\* caller that has queued its slot since then has received nothing.
C22_Witness ==
    /\ loopResult = "InvalidResponse:unexpected"
    /\ readerPc = "done"
    /\ unsolicited = 1
    /\ completions = <<>>
    /\ \E c \in Callers : pc[c] = "awaiting" /\ slot[c] = NoResult

----------------------------------------------------------------------------
\* C23: once a socket read has returned end-of-stream, the read loop ends,
\* and it ends with Ok(()) after the writer half has been shut down; it
\* fans no error out on the way.
C23_EofClosesGracefully ==
    (readerPc = "closing")
        ~> (readerPc = "done" /\ loopResult = "Ok" /\ writerShut)

\* The device closed its side while a caller was still awaiting its answer:
\* the loop has ended with Ok(()), the writer is shut down, and nothing was
\* sent to the caller.
C23_Witness ==
    /\ peerClosed
    /\ readerPc = "done"
    /\ loopResult = "Ok"
    /\ writerShut
    /\ \E c \in Callers : pc[c] = "awaiting" /\ slot[c] = NoResult


\* C24: when the stream ends after a 0x01 start marker and before its 0x03
\* end marker, the read loop ends with an IO error and every sender that was
\* queued holds that IO error.
C24_EofMidFrameIsIO ==
    (rd.result # "running" /\ rd.st.kind = "closed" /\ rd.st.some)
        => /\ rd.result = "IO"
           /\ \A s \in DOMAIN rd.slots :
                 rd.slots[s].st # "ok" => rd.slots[s] = ErrIO

\* the stream ended inside a frame with a sender queued, and the loop is over
C24_Witness ==
    /\ rd.result # "running"
    /\ rd.st.kind = "closed"
    /\ rd.st.some
    /\ rd.queue # <<>>

\* C25: no frame of more than 1024 payload bytes is handed to the loop, and
\* the buffer of read_response never holds more than 1024 bytes.
C25_AtMost1024 ==
    /\ Len(rd.st.data) <= 1024
    /\ \A s \in DOMAIN rd.slots :
          rd.slots[s].st = "ok" => Len(rd.slots[s].data) <= 1024

\* a frame of 1025 payload bytes was paired with a sender
C25_Witness ==
    \E s \in DOMAIN rd.slots :
        rd.slots[s].st = "ok" /\ Len(rd.slots[s].data) = 1025

\* C26: write_u24 appends exactly the three low-order bytes of the value,
\* least significant first; read_u24 of them returns the value modulo 2^24,
\* which is the value itself exactly when it is below 2^24; the u8 written
\* before it and the i16 written after it are read back unchanged.
C26_U24RoundTrip ==
    LET v == buf.value IN
    /\ buf.phase = "u24" =>
          buf.buffer = <<buf.first, v % 256, (v \div 256) % 256,
                         (v \div 65536) % 256>>
    /\ Len(buf.out) >= 2 =>
          /\ buf.out[2].ok
          /\ buf.out[2].value = v % 16777216
          /\ (buf.out[2].value = v) <=> (v < 16777216)
          /\ v = 305419896 => buf.out[2].value = 3430008
    /\ Len(buf.out) >= 3 =>
          /\ buf.out[1].ok /\ buf.out[1].value = buf.first
          /\ buf.out[3].ok /\ buf.out[3].value = buf.last
          /\ buf.pos = 6 /\ Len(buf.buffer) = 6

\* 0x12345678 was written between 0xAA and 0x7BCC and all three were read
C26_Witness ==
    /\ buf.value = 305419896
    /\ buf.first = 170
    /\ buf.last = 31692
    /\ Len(buf.out) >= 3
    /\ buf.out[2].value = 3430008

\* the sections and items of a file read off its lines: a line is blank when
\* nothing but white space precedes its ";", a header when it is "[..]"
\* (INI) or starts with "{" (brace sections), the closing "}" is no item,
\* and items of an INI file before any header follow one unnamed section
C27_IsHeader(kind, c) ==
    IF kind = "ini" THEN c[1] = "[" /\ c[Len(c)] = "]" ELSE c[1] = "{"

C27_SectionEntry(kind, c, i) ==
    [type |-> "section",
     name |-> SomeStr(IF kind = "ini"
                      THEN trim_ascii(SubSeq(c, 2, Len(c) - 1))
                      ELSE trim_ascii(Tail(c))),
     at |-> i - 1, item |-> NoItem]

C27_ItemEntry(kind, split, i) ==
    LET kv == split_once_and_trim_ascii(split.a, "=") IN
    [type |-> "item", name |-> NoneStr, at |-> i - 1,
     item |-> [line |-> split.a,
               key |-> IF kind = "ini" THEN kv.a ELSE <<>>,
               value |-> IF kind = "ini" THEN kv.b ELSE NoneStr,
               comment |-> split.b]]

RECURSIVE C27_Entries(_, _, _, _)
C27_Entries(kind, lines, i, first) ==
    IF i > Len(lines) THEN <<>>
    ELSE LET split == split_once_and_trim_ascii(lines[i], ";")
             c == split.a
         IN
         IF c = <<>> THEN C27_Entries(kind, lines, i + 1, first)
         ELSE IF C27_IsHeader(kind, c)
              THEN <<C27_SectionEntry(kind, c, i)>>
                       \o C27_Entries(kind, lines, i + 1, FALSE)
              ELSE IF kind = "exo" /\ c = <<"}">>
                   THEN C27_Entries(kind, lines, i + 1, FALSE)
                   ELSE (IF kind = "ini" /\ first
                         THEN <<[type |-> "section", name |-> NoneStr,
                                 at |-> -1, item |-> NoItem]>>
                         ELSE <<>>)
                        \o <<C27_ItemEntry(kind, split, i)>>
                        \o C27_Entries(kind, lines, i + 1, FALSE)

\* C27: for every INI file and every well-formed file with brace sections,
\* the loop over the sections and over each section's items receives, in the
\* order of the source, every header and every item line once, each item
\* after the header that most recently precedes it (the items of an INI file
\* before its first header after one unnamed section), with its text and
\* its comment; blank and comment-only lines are received as nothing.
C27_TokenisersKeepOrder ==
    tok.phase # "none" =>
        LET expected == C27_Entries(tok.kind, tok.lines, 1, TRUE) IN
        /\ Len(tok.out) <= Len(expected)
        /\ tok.out = SubSeq(expected, 1, Len(tok.out))
        /\ tok.phase = "done" => tok.out = expected

\* an INI file of an item with a comment, a comment-only line, a header and
\* an item has been iterated to its end
C27_Witness ==
    /\ tok.phase = "done"
    /\ tok.kind = "ini"
    /\ tok.lines = << <<" ", "b", " ", ";", "c">>, <<" ", ";", "c">>,
                     <<"[", "t", "]", ";", "c">>, <<"a", "=", "1">> >>
    /\ Len(tok.out) = 4
    /\ tok.out[1].type = "section" /\ ~tok.out[1].name.some
    /\ tok.out[2].item.key = <<"b">>
    /\ tok.out[3].name = SomeStr(<<"t">>)
    /\ tok.out[4].item.value = SomeStr(<<"1">>)

\* C28: once the read loop has terminated, every send_request whose sender
\* is enqueued, before or after the termination, eventually returns.
C28_NoCallerWaitsForever ==
    \A c \in FairCallers :
        (readerPc = "done" /\ pc[c] \in {"locking", "writing", "awaiting"})
            ~> (pc[c] \in {"returned", "abandoned"})

\* the sender of caller c is in the response queue
C29_Queued(c) == \E i \in DOMAIN response_queue : response_queue[i] = c

\* C29: after a failed socket write send_request has returned the IO error
\* and its sender is not in the response queue, and no frame that arrives
\* later is handed to that sender.
C29_WriteFailureRemovesSlot ==
    \A c \in Callers :
        (pc[c] = "returned" /\ result[c] = ErrIO)
            => /\ slot[c].st = "none" => ~C29_Queued(c)
               /\ slot[c].st # "ok"

\* the device has sent one answer per complete request and nothing else,
\* no read has failed, no caller was dropped and no write has failed
C30_WellBehaved ==
    /\ unsolicited = 0
    /\ readerErr = ""
    /\ \A b \in Callers : pc[b] # "abandoned" /\ result[b] # ErrIO

\* C30: with such a device and such callers, the sender of a caller that
\* is writing its frame is in the response queue, and the read loop never
\* holds a frame with the queue empty.
C30_SlotQueuedAtWrite ==
    C30_WellBehaved =>
        /\ \A c \in Callers : pc[c] = "writing" => C29_Queued(c)
        /\ readerPc = "got" => response_queue # <<>>
        /\ loopResult # "InvalidResponse:unexpected"

\* the bytes from..to of the stream hold no marker
C31_NoMarker(stream, from, to) ==
    \A i \in from..to :
        stream[i] \notin {BEGIN_RESPONSE, BEGIN_REQUEST, END_MESSAGE}

\* the first n bytes of the stream are the start of a frame that is still
\* open, or nothing at all
C31_OpenPrefix(stream, n) ==
    n > 0 => stream[1] = BEGIN_RESPONSE /\ C31_NoMarker(stream, 2, n)

\* C31: read_response returns a frame only after having consumed 0x01, a
\* payload without 0x01, 0x02, 0x03, and 0x03, and the frame is that payload;
\* it returns invalid data at the first byte that breaks this: a 0x02, a 0x01
\* in an open frame, a 0x03 or another byte outside a frame; until then it
\* keeps the payload read so far.
C31_FramingGrammar ==
    fr.phase # "none" =>
        LET n == fr.pos
            stream == fr.stream
        IN
        /\ fr.st.kind \in {"reading", "closed"} =>
              /\ C31_OpenPrefix(stream, n)
              /\ fr.st.some = (n > 0)
              /\ fr.st.data = SubSeq(stream, 2, n)
        /\ fr.st.kind = "frame" =>
              /\ n >= 2
              /\ stream[1] = BEGIN_RESPONSE
              /\ stream[n] = END_MESSAGE
              /\ C31_NoMarker(stream, 2, n - 1)
              /\ fr.st.data = SubSeq(stream, 2, n - 1)
        /\ fr.st.kind = "invalid" =>
              /\ n >= 1
              /\ C31_OpenPrefix(stream, n - 1)
              /\ \/ stream[n] = BEGIN_REQUEST
                 \/ stream[n] = BEGIN_RESPONSE /\ n > 1
                 \/ stream[n] # BEGIN_RESPONSE /\ n = 1
        /\ fr.st.kind \notin {"frame", "invalid"} => n = fr.st.used
        /\ fr.st.kind = "closed" => n = Len(stream)

\* a frame of two payload bytes was returned, the fifth byte of the stream
\* left unread
C31_Witness ==
    /\ fr.phase = "returned"
    /\ fr.st.kind = "frame"
    /\ fr.st.data = <<65, 66>>
    /\ fr.pos = 4
    /\ Len(fr.stream) = 5

\* C32: the writer lock is only ever held by a caller that is writing and
\* waits for no lock, so nobody waits in a cycle: the read loop waits for the
\* writer lock only when the stream has ended, a caller only for the writer
\* lock; and while the read loop holds the reader lock waiting for data, a
\* caller can push its sender, take the free writer lock, and finish its
\* write.
C32_NoCyclicWait ==
    /\ writer # 0 =>
          /\ pc[writer] = "writing"
          /\ ENABLED (WriteOk(writer) \/ WriteFail(writer))
    /\ readerPc = "closing" /\ writer = 0 => ENABLED Shutdown
    /\ readerPc = "reading" =>
          \A c \in Callers :
              /\ (pc[c] = "idle" /\ \A b \in Callers : b < c => pc[b] # "idle")
                    => ENABLED Enqueue(c)
              /\ (pc[c] = "locking" /\ writer = 0) => ENABLED AcquireWriter(c)
              /\ pc[c] = "writing" => ENABLED WriteOk(c)

\* the read loop waits for data while one caller writes and the other waits
\* for the writer lock
C32_Witness ==
    /\ readerPc = "reading"
    /\ inbound = <<>>
    /\ \E c \in Callers : pc[c] = "writing" /\ writer = c
    /\ \E c \in Callers : pc[c] = "locking"

\* the latest page request failed otherwise than with AddressOutsideRange
C33_Failed ==
    /\ call.op \in DPacOps
    /\ \/ device.last.kind \in {"corrupt", "garbled", "reset"}
       \/ device.last.kind = "exception" /\ device.last.code # AddressOutsideRange

\* the error send_request returns for that failure
C33_ErrorOf(last) ==
    CASE last.kind = "exception" -> ErrException(last.code)
      [] last.kind = "corrupt" -> ErrInvalidResponse("CRC mismatch")
      [] last.kind = "garbled" -> ErrInvalidResponse("The server sent invalid data")
      [] last.kind = "reset" -> ErrIO

\* C33: after a page request of read_dpac or read_dpac_page has failed with
\* an error other than AddressOutsideRange, no request is written any more,
\* no page was requested twice, and the operation returns that error, with
\* no map.
C33_PageErrorReturned ==
    C33_Failed =>
        /\ Len(cwire) = canswered
        /\ \A i, j \in DOMAIN cwire : i # j => cwire[i].body # cwire[j].body
        /\ cpc \in {"awaiting", "done"}
        /\ cpc = "done" =>
              /\ cresult = OpErr(C33_ErrorOf(device.last))
              /\ cresult.map = {}

\* read_dpac had decoded a variable of page 0 when page 1 came with a wrong
\* CRC, and has returned
C33_Witness ==
    /\ C33_Failed
    /\ call.op = "read_dpac"
    /\ device.last.kind = "corrupt"
    /\ cpc = "done"
    /\ Len(cwire) = 2
    /\ dpac.result # {}
    /\ cresult.st = "err"

----------------------------------------------------------------------------
\* C34: read_dpac asks for the pages 0, 1, 2, ... in this order, without a
\* gap and each one once; it asks for page p only if a variable that is not
\* a String ends behind the bytes of the pages 0..p-1; it sends at most 256
\* requests; and when every request it sent is answered it returns: while it
\* awaits, an answer is on the way, and every step leaves fewer steps to do.
C34_Needed(p) ==
    \E k \in 1..Len(call.variables) :
        /\ call.variables[k].kind # "String"
        /\ PageOffset(call.file_kind, call.variables[k])
              + PageSize(call.file_kind, call.variables[k]) > PageBytes * p

C34_Requests ==
    call.op = "read_dpac" =>
        /\ Len(cwire) <= 256
        /\ \A i \in 1..Len(cwire) :
              /\ cwire[i].cmd = "ReadDPacPage"
              /\ cwire[i].body[2] = i - 1
              /\ C34_Needed(i - 1)

\* a request awaited has its answer on the way: the device has yet to read
\* it, or its frame is in the stream, or its slot is filled
C34_InFlight ==
    \/ canswered < Len(cwire)
    \/ cstream # <<>> /\ read_response(cstream).kind # "pending"
    \/ cslot.st # "none"

\* what is left of the operation: the requests it may still send, and the
\* steps left for the one it awaits
C34_Left ==
    IF cpc = "done" THEN 0
    ELSE 3 * (256 - Len(cwire))
         + (IF cslot.st # "none" THEN 1
            ELSE IF canswered < Len(cwire) THEN 3 ELSE 2)

C34_Step ==
    (call.op = "read_dpac" /\ call' = call) => C34_Left' < C34_Left

C34_PagesInOrder ==
    /\ [](C34_Requests /\ (call.op = "read_dpac" /\ cpc # "done" => C34_InFlight))
    /\ [][C34_Step]_vars

\* read_dpac has sent its 256th request, for page 255, and has returned
C34_Witness ==
    /\ call.op = "read_dpac"
    /\ Len(cwire) = 256
    /\ cwire[256].body[2] = 255
    /\ cpc = "done"
    /\ cresult.st = "ok"

----------------------------------------------------------------------------
\* the orders in which File::iter may yield the variables of the call
C35_Orders ==
    {vs \in [1..Len(call.variables) -> {call.variables[i] : i \in 1..Len(call.variables)}] :
        \A i, j \in 1..Len(vs) : i # j => vs[i] # vs[j]}

\* what a failed page request of this device returns
C35_Failure ==
    IF device.last.kind \in {"corrupt", "garbled", "reset"}
       \/ (device.last.kind = "exception" /\ device.last.code # AddressOutsideRange)
    THEN C33_ErrorOf(device.last)
    ELSE ErrIO

\* C35: for a fixed file and a fixed device, read_dpac returns the same map
\* or the same error and requests the same pages in the same sequence
\* whatever the order in which the variables of the file are iterated.
C35_OrderIndependent ==
    (call \in DPacCalls /\ call.op = "read_dpac"
        /\ call.file_kind \in {"BPac", "VPac"} /\ cpc = "done") =>
        \A vs \in C35_Orders :
            LET other == ReadDPacFrom([call EXCEPT !.variables = vs], device,
                                      C35_Failure, DPacStart, <<>>)
            IN /\ other.result = cresult
               /\ other.pages = [i \in 1..Len(cwire) |-> cwire[i].body[2]]

\* read_dpac has returned both variables of a BPac whose first variable lies
\* on page 1 and whose second on page 0
C35_Witness ==
    /\ call \in DPacCalls
    /\ call.op = "read_dpac"
    /\ call.file_kind = "BPac"
    /\ call.variables = <<[kind |-> "Logic", offset |-> 120],
                          [kind |-> "Huge", offset |-> 0]>>
    /\ cpc = "done"
    /\ Len(cwire) = 2
    /\ cresult.st = "ok"
    /\ Cardinality(cresult.map) = 2

----------------------------------------------------------------------------
\* C36: in a VPac parsed with alignwithsegments=yes, every variable that is
\* not a String (scalar, array element or paged alias) has
\* floor(offset/60) = floor((offset + offset_size - 1)/60), offset_size being
\* 3 for Huge and Real, 2 for Integer, 1 for Index and Logic, after any
\* sequence of scalar and array declarations.
C36_NoSpanCrossesSegment ==
    vpac.align_with_segments =>
        \A e \in vpac.variables :
            e.kind # "String" =>
                e.offset \div 60
                    = (e.offset + offset_size_of_vpac_variable(e.kind) - 1) \div 60

\* Foo(0)..Foo(18) of kind Integer end at 38; the Huge array Bar declared
\* next does not fit into the segment and starts at 39, so that Bar(6) ends
\* the segment at 57 and Bar(7) begins the next one, as does its alias of
\* page 2
C36_Witness ==
    /\ vpac.align_with_segments
    /\ vpac.pages = 3
    /\ VarEntry(VarName("Foo", 18, 0), "Integer", 36) \in vpac.variables
    /\ VarEntry(VarName("Bar", 6, 0), "Huge", 57) \in vpac.variables
    /\ VarEntry(VarName("Bar", 7, 0), "Huge", 60) \in vpac.variables
    /\ VarEntry(VarName("Bar", 7, 2), "Huge", 180) \in vpac.variables

----------------------------------------------------------------------------
\* the offset the scalar rule gives a declaration of the kind at the offset
C37_ScalarRule(offset, kind) ==
    LET size == offset_size_of_vpac_variable(kind) IN
    IF vpac.align_with_segments /\ kind # "String"
          /\ offset \div 60 # (offset + size - 1) \div 60
    THEN (offset \div 60 + 1) * 60
    ELSE offset

\* the start of an array of n + 1 elements of the size, from that offset
C37_Start(offset, size, n) ==
    IF vpac.align_with_segments /\ (offset % 60) + size * (n + 1) > 60
    THEN offset + ((size - ((offset % 60) % size)) % 3)
    ELSE offset

\* the entries of the base name (no alias) in a variable map
C37_ElementsOf(variables, base) ==
    {e \in variables : e.name.base = base /\ e.name.page = 0 /\ e.name.elem # NoLength}

C37_ArrayStep(kind, n) ==
    LET name == DeclName(vpac.decls)
        size == offset_size_of_vpac_variable(kind)
        start == C37_Start(C37_ScalarRule(vpac.offset, kind), size, n)
    IN  DeclareArray(name, kind, n) =>
            /\ C37_ElementsOf(vpac'.variables, name)
                  = {VarEntry(VarName(name, i, 0), kind, start + size * i) : i \in 0..n}
            /\ Cardinality(C37_ElementsOf(vpac'.variables, name)) = n + 1
            /\ vpac'.offset = start + size * (n + 1)

\* C37: a VPac array declaration of kind K and length n yields exactly the
\* n + 1 entries Name(0)..Name(n), at consecutive offsets spaced by the
\* offset size of K; with segment alignment on and
\* (offset mod 60) + size * (n + 1) > 60 the start is first advanced by
\* (size - (offset mod 60) mod size) mod 3, and otherwise it is where the
\* scalar rule puts it.
C37_ArrayPlacement ==
    [][\A kind \in VariableKinds, n \in ArrayLengths : C37_ArrayStep(kind, n)]_vars

\* after the Huge array Foo(0)..Foo(18), which ends at 57, the Integer array
\* Bar does not fit: it is advanced by 1 and its 19 elements lie at 58..94
C37_Witness ==
    /\ vpac.align_with_segments
    /\ vpac.decls = 2
    /\ VarEntry(VarName("Foo", 0, 0), "Huge", 0) \in vpac.variables
    /\ VarEntry(VarName("Bar", 0, 0), "Integer", 58) \in vpac.variables
    /\ VarEntry(VarName("Bar", 18, 0), "Integer", 94) \in vpac.variables
    /\ Cardinality(C37_ElementsOf(vpac.variables, "Bar")) = 19
    /\ vpac.offset = 96

----------------------------------------------------------------------------
\* the sum of the sizes of the columns before column j
RECURSIVE C38_Before(_, _)
C38_Before(columns, j) ==
    IF j <= 1 THEN 0
    ELSE C38_Before(columns, j - 1) + offset_size_of_bpac_variable(columns[j - 1].kind)

\* the records 0..m-1 laid out densely
C38_Dense(columns, m) ==
    { VarEntry(RecordName(k, columns[j].name), columns[j].kind,
               k * C38_Before(columns, Len(columns) + 1) + C38_Before(columns, j))
        : k \in 0..(m - 1), j \in 1..Len(columns) }

\* C38: after any sequence of data lines of a BPac values section, with or
\* without #N, N decreasing or repeated, the records stored are exactly the
\* records 0..m-1 for some m, and Records(k).Col_j lies at k * R plus the
\* sizes of the columns before j, R being the sum of all column sizes.
C38_RecordsDense ==
    bp.phase = "values" =>
        /\ \E m \in 0..(bp.offset + 1) : bp.variables = C38_Dense(bp.columns, m)
        /\ bp.variables = C38_Dense(bp.columns, bp.i)
        /\ bp.offset = bp.i * C38_Before(bp.columns, Len(bp.columns) + 1)

\* the lines #3, #1 and #3 of a file with two columns: records 0..2 are
\* synthesised, the lines are the records 3, 4 and 5
C38_Witness ==
    /\ bp.phase = "values"
    /\ Len(bp.columns) = 2
    /\ bp.lines = <<3, 1, 3>>
    /\ bp.i = 6
    /\ VarEntry(RecordName(5, "B"), "Index", 29) \in bp.variables

----------------------------------------------------------------------------
\* the same lookup on the same files loaded in the other mode
C39_Other ==
    lookup_variable([ctl EXCEPT !.mode = IF @ = "HashedNames" THEN "WithNames"
                                         ELSE "HashedNames"],
                    ctl.op.name)

\* C39: a lookup in HashedNames mode returns a variable if and only if the
\* lookup in WithNames mode does, and the two variables have the same kind
\* and the same offset.
C39_SameLookupInBothModes ==
    (ctl.phase = "loaded" /\ ctl.op.type = "lookup"
        /\ ctl.mode \in {"HashedNames", "WithNames"}) =>
        /\ ctl.op.result.some = C39_Other.some
        /\ ctl.op.result.some =>
              /\ ctl.op.result.kind = C39_Other.kind
              /\ ctl.op.result.offset = C39_Other.offset

----------------------------------------------------------------------------
\* C40: in the controller load_selective returns, whatever the order in
\* which the parse tasks completed, every entry of globals is an entry of
\* dpacs under the same name, with the same load number and the same file,
\* and was made from a DPac item of Load.Mdl flagged MS.
C40_GlobalsWithinDPacs ==
    ctl.phase = "loaded" =>
        \A g \in ctl.globals :
            /\ g.item.section = "dpac"
            /\ g.item.global
            /\ \E e \in ctl.dpacs :
                  /\ UniEq(e.key, g.key)
                  /\ e.load_number = g.load_number
                  /\ e.file = g.file

====
